---- MODULE Spec2Model ----
(***************************************************************************)
(* Model of the Wolt venue client (wolt_api_mcp/client.py), its validated  *)
(* data model (wolt_api_mcp/models.py), its error taxonomy                 *)
(* (wolt_api_mcp/exceptions.py) and the tool server built on top of it     *)
(* (wolt_api_mcp/server.py).                                               *)
(*                                                                         *)
(* Time is counted in whole seconds.  Python text whose characters the     *)
(* code inspects (names, slugs, tags) is a sequence of one-character       *)
(* strings; a formatted message is a sequence of parts, each a literal of  *)
(* the format string (Lit) or an interpolated value (Val).  The two status *)
(* emoji of the source are written by their code points, U+1F7E2 (green)   *)
(* and U+1F534 (red).                                                      *)
(***************************************************************************)
EXTENDS Integers, Sequences, FiniteSets, TLC

VARIABLES
    now,                \* the wall clock read by time.time()
    owner,              \* who constructed the live WoltAPI instance
    rate_limit_delay,   \* WoltAPI.rate_limit_delay
    last_request_time,  \* WoltAPI.last_request_time
    pc,                 \* position of the running client operation
    frame,              \* the running operation and its local variables
    hist,               \* what the running operation has done so far
    outcome,            \* what the last finished operation gave its caller
    inst,               \* the WoltAPI instances of tool invocations in progress
    models,             \* the models.py objects a user of the library holds
    monitor             \* the run of monitor_restaurants of the example script

vars == <<now, owner, rate_limit_delay, last_request_time, pc, frame, hist, outcome,
          inst, models, monitor>>

-----------------------------------------------------------------------------
(* Bounds of the model *)

StartTime    == 7    \* the clock value of the initial state
MaxTime      == 30   \* the clock is not followed beyond this value
MaxOversleep == 1    \* time.sleep may return this much later than asked
MaxLatency   == 1    \* a response arrives at most this long after its request
MaxIdle      == 2    \* an instance is not followed longer than this between calls
MaxInstTime  == 14   \* the clock bound where tool invocations overlap
MaxCycles    == 3    \* the passes of the while loop of the monitor
MaxRequests  == 3    \* requests of one tool invocation where invocations overlap

Delays == {1, 6}     \* the rate_limit_delay values tried

-----------------------------------------------------------------------------
(* Python text *)

LowerLetters == {"a", "b", "c", "d", "e", "f", "g", "h", "i", "j", "k", "l", "m",
                 "n", "o", "p", "q", "r", "s", "t", "u", "v", "w", "x", "y", "z"}
Digits == {"0", "1", "2", "3", "4", "5", "6", "7", "8", "9"}

Alphabet == <<"a", "b", "c", "d", "e", "f", "g", "h", "i", "j", "k", "l", "m",
              "n", "o", "p", "q", "r", "s", "t", "u", "v", "w", "x", "y", "z">>

UpperAlphabet == <<"A", "B", "C", "D", "E", "F", "G", "H", "I", "J", "K", "L", "M",
                   "N", "O", "P", "Q", "R", "S", "T", "U", "V", "W", "X", "Y", "Z">>

LowerOf == [c \in {UpperAlphabet[i] : i \in DOMAIN UpperAlphabet} |->
              Alphabet[CHOOSE i \in DOMAIN UpperAlphabet : UpperAlphabet[i] = c]]

\* str.lower()
Lower(s) == [i \in DOMAIN s |-> IF s[i] \in DOMAIN LowerOf THEN LowerOf[s[i]] ELSE s[i]]

IsSpace(c) == c = " "

RECURSIVE LStrip(_)
LStrip(s) == IF s # <<>> /\ IsSpace(Head(s)) THEN LStrip(Tail(s)) ELSE s

RECURSIVE RStrip(_)
RStrip(s) == IF s # <<>> /\ IsSpace(s[Len(s)]) THEN RStrip(SubSeq(s, 1, Len(s) - 1)) ELSE s

\* str.strip()
Strip(s) == RStrip(LStrip(s))

\* Lit: a literal of the format string; Val: an interpolated text value;
\* Str: an interpolated value written as a whole (a number, a marker, a class
\* name); Msg: an interpolated exception, that is its message
Lit(s) == [lit |-> s]
Val(v) == [val |-> v]
Str(s) == [str |-> s]
Msg(m) == [msg |-> m]

-----------------------------------------------------------------------------
(* JSON values of an upstream response: every value carries its type *)

JStr(s)  == [t |-> "str",  v |-> s]
JNum(n)  == [t |-> "num",  v |-> n]
JBool(b) == [t |-> "bool", v |-> b]
JList(l) == [t |-> "list", v |-> l]
JObj(o)  == [t |-> "dict", v |-> o]
JNone    == [t |-> "none", v |-> 0]

\* dict.get(key, default) on the fields of a JSON object
Get(d, k, default) == IF k \in DOMAIN d THEN d[k] ELSE default

\* Python truthiness of a JSON value
Truthy(j) ==
    CASE j.t = "none" -> FALSE
      [] j.t = "bool" -> j.v
      [] j.t = "num"  -> j.v # 0
      [] j.t = "str"  -> j.v # <<>>
      [] j.t = "list" -> j.v # <<>>
      [] j.t = "dict" -> DOMAIN j.v # {}

-----------------------------------------------------------------------------
(* Python exceptions: a type and a message *)

Exc(type, msg) == [type |-> type, msg |-> msg]

\* the classes an exception type is an instance of (exceptions.py; pydantic's
\* ValidationError derives from ValueError; requests' errors from
\* RequestException)
Bases ==
    [WoltAPIError            |-> {"WoltAPIError", "Exception"},
     RestaurantNotFoundError |-> {"RestaurantNotFoundError", "WoltAPIError", "Exception"},
     RateLimitError          |-> {"RateLimitError", "WoltAPIError", "Exception"},
     APIUnavailableError     |-> {"APIUnavailableError", "WoltAPIError", "Exception"},
     ValidationError         |-> {"ValidationError", "ValueError", "Exception"},
     ValueError              |-> {"ValueError", "Exception"},
     AttributeError          |-> {"AttributeError", "Exception"},
     TypeError               |-> {"TypeError", "Exception"},
     HTTPError               |-> {"HTTPError", "RequestException", "Exception"},
     JSONDecodeError         |-> {"JSONDecodeError", "RequestException", "Exception"},
     ConnectionError         |-> {"ConnectionError", "RequestException", "Exception"},
     Timeout                 |-> {"Timeout", "RequestException", "Exception"},
     KeyboardInterrupt       |-> {"KeyboardInterrupt", "BaseException"}]

\* isinstance(e, cls), as an except clause tests it
IsInstance(e, cls) == cls \in Bases[e.type]

Return(v) == [kind |-> "return", value |-> v]
Raise(e)  == [kind |-> "raise", exc |-> e]
TextResult(t) == [kind |-> "text", text |-> t]
NoOutcome == [kind |-> "none"]

-----------------------------------------------------------------------------
(* models.py: the validated Restaurant.  Ratings are counted in tenths.     *)
(* The constraints given to Field(...) (lengths, pattern, bounds) are       *)
(* checked first; the @validator functions run on values that passed them. *)

NameMinLen == 1
NameMaxLen == 200
SlugMinLen == 3
SlugMaxLen == 200
RatingMin == 0
RatingMax == 50
DeliveryEstimateMaxLen == 50
ImageUrlMaxLen == 500

SlugChars == LowerLetters \cup Digits \cup {"-", "_"}

\* variant: validate_name without the test of the trimmed name
NameOk_NoStrip(j) ==
    /\ j.t = "str"
    /\ Len(j.v) >= NameMinLen /\ Len(j.v) <= NameMaxLen

\* the constraints of Field(...) on name, then validate_name
NameOk(j) ==
    /\ j.t = "str"
    /\ Len(j.v) >= NameMinLen /\ Len(j.v) <= NameMaxLen
    /\ Strip(j.v) # <<>>

\* the constraints of Field(...) on slug: length and pattern ^[a-z0-9\-_]+$
SlugOk(j) ==
    /\ j.t = "str"
    /\ Len(j.v) >= SlugMinLen /\ Len(j.v) <= SlugMaxLen
    /\ \A i \in DOMAIN j.v : j.v[i] \in SlugChars

\* validate_slug
validate_slug(v) == Lower(v)

\* validate_name, on a value that passed NameOk
validate_name(v) == Strip(v)

\* is_online: bool, a number 0 or 1 being coerced
OnlineOk(j) == j.t = "bool" \/ (j.t = "num" /\ j.v \in {0, 1})
OnlineOf(j) == IF j.t = "bool" THEN j.v ELSE j.v = 1

RatingOk(j) == j.t = "none" \/ (j.t = "num" /\ j.v >= RatingMin /\ j.v <= RatingMax)

OptStrOk(j, maxlen) == j.t = "none" \/ (j.t = "str" /\ Len(j.v) <= maxlen)

RECURSIVE validate_cuisine_types(_)
\* validate_cuisine_types: [cuisine.strip() for cuisine in v if cuisine.strip()]
validate_cuisine_types(v) ==
    IF v = <<>> THEN <<>>
    ELSE IF Strip(Head(v)) # <<>>
         THEN <<Strip(Head(v))>> \o validate_cuisine_types(Tail(v))
         ELSE validate_cuisine_types(Tail(v))

ValidationMsg == <<Lit("validation error for Restaurant")>>

\* Restaurant(name=..., slug=..., is_online=..., cuisine_types=..., rating=...,
\* delivery_estimate=..., image_url=...): the object, or ValidationError
Restaurant(name, slug, is_online, cuisine_types, rating, delivery_estimate, image_url) ==
    IF /\ NameOk(name)
       /\ SlugOk(slug)
       /\ OnlineOk(is_online)
       /\ RatingOk(rating)
       /\ OptStrOk(delivery_estimate, DeliveryEstimateMaxLen)
       /\ OptStrOk(image_url, ImageUrlMaxLen)
    THEN Return([name              |-> validate_name(name.v),
                 slug              |-> validate_slug(slug.v),
                 is_online         |-> OnlineOf(is_online),
                 cuisine_types     |-> validate_cuisine_types(cuisine_types),
                 rating            |-> rating,
                 delivery_estimate |-> delivery_estimate,
                 image_url         |-> image_url,
                 location          |-> JNone,
                 city              |-> JNone])
    ELSE Raise(Exc("ValidationError", ValidationMsg))

\* Restaurant.is_open
is_open(r) == r.is_online

LocationMaxLen == 200
CityMaxLen == 100

\* the fields of Restaurant
Fields ==
    {"name", "slug", "is_online", "cuisine_types", "rating", "delivery_estimate",
     "image_url", "location", "city"}

\* the validation of one field of Restaurant: the value stored, or
\* ValidationError
ValidateField(attr, j) ==
    LET ok(b, v) == IF b THEN Return(v) ELSE Raise(Exc("ValidationError", ValidationMsg))
    IN  CASE attr = "name"              -> ok(NameOk(j), validate_name(j.v))
          [] attr = "slug"              -> ok(SlugOk(j), validate_slug(j.v))
          [] attr = "is_online"         -> ok(OnlineOk(j), OnlineOf(j))
          [] attr = "cuisine_types"     -> ok(j.t = "list", validate_cuisine_types(j.v))
          [] attr = "rating"            -> ok(RatingOk(j), j)
          [] attr = "delivery_estimate" -> ok(OptStrOk(j, DeliveryEstimateMaxLen), j)
          [] attr = "image_url"         -> ok(OptStrOk(j, ImageUrlMaxLen), j)
          [] attr = "location"          -> ok(OptStrOk(j, LocationMaxLen), j)
          [] attr = "city"              -> ok(OptStrOk(j, CityMaxLen), j)

\* variant: Config without validate_assignment
validate_assignment_Off == FALSE

\* Config.validate_assignment
validate_assignment == TRUE

\* restaurant.attr = value, with Config.validate_assignment and extra =
\* "forbid": the object after the assignment, or the error raised; an
\* assignment that is not validated stores the value as it is
SetAttr(o, attr, j) ==
    IF attr \notin Fields
    THEN Raise(Exc("ValueError", <<Lit("\"Restaurant\" object has no field \""),
                                   Str(attr), Lit("\"")>>))
    ELSE IF ~validate_assignment
    THEN Return([o EXCEPT ![attr] = IF attr \in {"name", "slug", "is_online", "cuisine_types"}
                                    THEN j.v ELSE j])
    ELSE LET r == ValidateField(attr, j)
         IN  IF r.kind = "raise" THEN r ELSE Return([o EXCEPT ![attr] = r.value])

-----------------------------------------------------------------------------
(* models.py: SearchParams.  rate_limit_delay is counted in hundredths of a *)
(* second.                                                                  *)

\* an argument left out of the call
Omitted == [t |-> "omitted", v |-> 0]

QueryMinLen == 2
QueryMaxLen == 100
CityFilterMaxLen == 50
MaxResultsMin == 1
MaxResultsMax == 100
ParamsDefaultMaxResults == 20
DelayMin == 10
DelayMax == 500
ParamsDefaultDelay == 100

\* variant: validate_query without the test of the trimmed query
QueryOk_NoStrip(j) ==
    /\ j.t = "str"
    /\ Len(j.v) >= QueryMinLen /\ Len(j.v) <= QueryMaxLen

\* the constraints of Field(...) on query, then the test of validate_query
QueryOk(j) ==
    /\ j.t = "str"
    /\ Len(j.v) >= QueryMinLen /\ Len(j.v) <= QueryMaxLen
    /\ Strip(j.v) # <<>>

\* validate_query, on a value that passed QueryOk
validate_query(v) == Strip(v)

\* the constraints of Field(...) on city
CityOk(j) == j.t \in {"omitted", "none"} \/ (j.t = "str" /\ Len(j.v) <= CityFilterMaxLen)

\* variant: validate_city without lower()
validate_city_NoLower(j) ==
    IF j.t = "str"
    THEN LET city == Strip(j.v)
         IN  IF city = <<>> THEN JNone ELSE JStr(city)
    ELSE JNone

\* validate_city; the default of city is None
validate_city(j) ==
    IF j.t = "str"
    THEN LET city == Lower(Strip(j.v))
         IN  IF city = <<>> THEN JNone ELSE JStr(city)
    ELSE JNone

MaxResultsOk(j) ==
    j.t = "omitted" \/ (j.t = "num" /\ j.v >= MaxResultsMin /\ j.v <= MaxResultsMax)

DelayOk(j) == j.t = "omitted" \/ (j.t = "num" /\ j.v >= DelayMin /\ j.v <= DelayMax)

SearchParamsMsg == <<Lit("validation error for SearchParams")>>

\* SearchParams(query=..., city=..., max_results=..., rate_limit_delay=...):
\* the object, or ValidationError
SearchParams(query, city, max_results, delay) ==
    IF QueryOk(query) /\ CityOk(city) /\ MaxResultsOk(max_results) /\ DelayOk(delay)
    THEN Return([query            |-> validate_query(query.v),
                 city             |-> validate_city(city),
                 max_results      |-> IF max_results.t = "omitted"
                                      THEN ParamsDefaultMaxResults ELSE max_results.v,
                 rate_limit_delay |-> IF delay.t = "omitted"
                                      THEN ParamsDefaultDelay ELSE delay.v])
    ELSE Raise(Exc("ValidationError", SearchParamsMsg))

-----------------------------------------------------------------------------
(* client.py: parsing of an upstream response *)

EmptyDict == JObj(<<>>)

RECURSIVE StrTags(_)
\* [tag for tag in tags if isinstance(tag, str)]
StrTags(tags) ==
    IF tags = <<>> THEN <<>>
    ELSE IF Head(tags).t = "str"
         THEN <<Head(tags).v>> \o StrTags(Tail(tags))
         ELSE StrTags(Tail(tags))

\* the sub-field `key` of the object under `field`, when that is a non-empty
\* object: x = d.get(field); if x and isinstance(x, dict): x.get(key)
SubField(venue_data, field, key) ==
    LET x == Get(venue_data, field, JNone)
    IN  IF Truthy(x) /\ x.t = "dict" THEN Get(x.v, key, JNone) ELSE JNone

\* the image of the first entry of venue_preview_items: whether the code
\* reaches its assignment, and the value assigned
PreviewImageUrl(venue_data) ==
    LET preview_items == Get(venue_data, "venue_preview_items", JList(<<>>))
    IN  IF Truthy(preview_items) /\ Len(preview_items.v) > 0
        THEN LET first_item == preview_items.v[1]
             IN  IF first_item.t = "dict" /\ "image" \in DOMAIN first_item.v
                    /\ first_item.v["image"].t = "dict"
                 THEN [hit |-> TRUE, url |-> Get(first_item.v["image"].v, "url", JNone)]
                 ELSE [hit |-> FALSE, url |-> JNone]
        ELSE [hit |-> FALSE, url |-> JNone]

\* WoltAPI._parse_restaurant
_parse_restaurant(venue_data) ==
    LET tags == Get(venue_data, "tags", JList(<<>>))
        cuisine_types == StrTags(tags.v)
        delivery_estimate == SubField(venue_data, "estimate", "estimate")
        image_url_1 == SubField(venue_data, "image", "url")
        image_url == IF ~Truthy(image_url_1) /\ PreviewImageUrl(venue_data).hit
                     THEN PreviewImageUrl(venue_data).url
                     ELSE image_url_1
        rating == SubField(venue_data, "rating", "score")
    IN  Restaurant(Get(venue_data, "name", JStr(<<>>)),
                   Get(venue_data, "slug", JStr(<<>>)),
                   Get(venue_data, "online", JBool(FALSE)),
                   cuisine_types, rating, delivery_estimate, image_url)

RECURSIVE ItemVenues(_)
\* the non-empty venue objects of the items of one section, in order
ItemVenues(items) ==
    IF items = <<>> THEN <<>>
    ELSE LET venue == Get(Head(items).v, "venue", EmptyDict)
         IN  (IF Truthy(venue) THEN <<venue.v>> ELSE <<>>) \o ItemVenues(Tail(items))

RECURSIVE SectionVenues(_)
\* the venue objects of all sections, in document order
SectionVenues(sections) ==
    IF sections = <<>> THEN <<>>
    ELSE ItemVenues(Get(Head(sections).v, "items", JList(<<>>)).v)
         \o SectionVenues(Tail(sections))

RECURSIVE ParseAll_Dedup(_, _)
\* variant: a venue whose slug is already in the list is left out
ParseAll_Dedup(venues, restaurants) ==
    IF venues = <<>> THEN Return(restaurants)
    ELSE LET r == _parse_restaurant(Head(venues))
         IN  IF r.kind = "raise" THEN r
             ELSE IF \E i \in DOMAIN restaurants : restaurants[i].slug = r.value.slug
                  THEN ParseAll_Dedup(Tail(venues), restaurants)
                  ELSE ParseAll_Dedup(Tail(venues), Append(restaurants, r.value))

RECURSIVE ParseAll(_, _)
\* restaurants.append(self._parse_restaurant(venue)) for each venue; the first
\* venue that fails validation ends the loop with its exception
ParseAll(venues, restaurants) ==
    IF venues = <<>> THEN Return(restaurants)
    ELSE LET r == _parse_restaurant(Head(venues))
         IN  IF r.kind = "raise" THEN r
             ELSE ParseAll(Tail(venues), Append(restaurants, r.value))

\* the part of WoltAPI.get_nearby_restaurants after _make_request returned data
NearbyFromData(data) ==
    ParseAll(SectionVenues(Get(data.v, "sections", JList(<<>>)).v), <<>>)

-----------------------------------------------------------------------------
(* client.py: find_restaurants *)

\* the radius of the nearby query find_restaurants makes
FindRadius == 5000

\* sub in s, for two texts
Contains(sub, s) ==
    \E i \in 0..(Len(s) - Len(sub)) : SubSeq(s, i + 1, i + Len(sub)) = sub

\* variant: only the name is compared with the query
Matches_NameOnly(restaurant, query_lower) ==
    Contains(query_lower, Lower(restaurant.name))

\* the body of the loop of find_restaurants: whether the restaurant is appended
Matches(restaurant, query_lower) ==
    IF Contains(query_lower, Lower(restaurant.name)) THEN TRUE
    ELSE \E i \in DOMAIN restaurant.cuisine_types :
            Contains(query_lower, Lower(restaurant.cuisine_types[i]))

RECURSIVE FilterMatching(_, _)
\* the loop of find_restaurants over the restaurants of the nearby query
FilterMatching(restaurants, query_lower) ==
    IF restaurants = <<>> THEN <<>>
    ELSE (IF Matches(Head(restaurants), query_lower) THEN <<Head(restaurants)>> ELSE <<>>)
         \o FilterMatching(Tail(restaurants), query_lower)

\* what find_restaurants gives its caller once its nearby query has ended
FindResult(nearby, query) ==
    IF nearby.kind = "raise" THEN nearby
    ELSE Return(FilterMatching(nearby.value, Lower(query)))

-----------------------------------------------------------------------------
(* client.py: the anchors of is_restaurant_open; coordinates in 1/10000 degree *)

israeli_locations ==
    << <<"Tel Aviv Center",    320853, 347818,  8000>>,
       <<"Tel Aviv Dizengoff", 320740, 347749,  8000>>,
       <<"North Tel Aviv",     321200, 348000, 12000>>,
       <<"South Tel Aviv",     320300, 347500, 10000>>,
       <<"East Tel Aviv",      320800, 348500, 12000>>,
       <<"Jerusalem Center",   317683, 352137, 15000>>,
       <<"Jerusalem North",    318500, 352000, 12000>>,
       <<"Haifa",              327940, 349896, 12000>>,
       <<"Haifa Bay",          328200, 350700, 10000>>,
       <<"Nazareth",           327022, 352973,  8000>>,
       <<"Netanya",            323215, 348532, 10000>>,
       <<"Kfar Saba",          321743, 349077,  8000>>,
       <<"Rehovot",            318969, 348186, 10000>>,
       <<"Be'er Sheva",        312587, 348008, 15000>>,
       <<"Ashkelon",           316688, 345742,  8000>>,
       <<"Ashdod",             317940, 346440,  8000>>,
       <<"Modi'in",            318970, 350098,  8000>>,
       <<"Eilat",              295581, 349482,  5000>>,
       <<"Tiberias",           327922, 355311,  6000>>,
       <<"Kiryat Shmona",      332074, 355692,  5000>> >>

\* the params of the request get_nearby_restaurants(lat, lon, radius) makes
Params(lat, lon, radius) == [lat |-> lat, lon |-> lon, radius |-> radius]

AnchorParams(i) ==
    Params(israeli_locations[i][2], israeli_locations[i][3], israeli_locations[i][4])

-----------------------------------------------------------------------------
(* client.py: _rate_limit and the status handling of _make_request.        *)
(* The clock never runs backwards, and session.get sends the request at    *)
(* the time _rate_limit recorded just before it.                           *)

RetrySleep == 5

\* variant: sleeps for the time elapsed instead of the remaining difference
SleepTime_Elapsed(current_time, last, delay) ==
    LET time_since_last == current_time - last
    IN  IF time_since_last < delay THEN time_since_last ELSE 0

\* the sleep_time _rate_limit asks of time.sleep (0: no sleep)
SleepTime(current_time, last, delay) ==
    LET time_since_last == current_time - last
    IN  IF time_since_last < delay THEN delay - time_since_last ELSE 0

\* variant: the retry does not switch retrying off
On429_AlwaysRetry(retry_on_rate_limit) == [act |-> "retry"]

\* a first 429 is retried, a 429 of the retry raises RateLimitError
On429(retry_on_rate_limit) ==
    IF retry_on_rate_limit
    THEN [act |-> "retry"]
    ELSE [act |-> "raise",
          exc |-> Exc("RateLimitError", <<Lit("Rate limit exceeded (429)")>>)]

\* variant: a request made after a retry is not retried itself
DefaultRetry_Spent == FALSE

\* the default of the parameter retry_on_rate_limit, which every call of
\* _make_request from a public operation takes
DefaultRetry == TRUE

\* variant: the retry is allowed to retry again
RetryArgument_Kept == TRUE

\* the retry_on_rate_limit argument of the recursive call that re-issues the
\* request after a first 429
RetryArgument == FALSE

\* variant: a server error reported as the generic kind, without its code
ServerError_NoCode(status) == Exc("WoltAPIError", <<Lit("Server error")>>)

\* the error of a status >= 500
ServerError(status) ==
    Exc("APIUnavailableError", <<Lit("Server error ("), Str(ToString(status)), Lit(")")>>)

\* variant: without response.raise_for_status(), a status that has no branch
\* goes on to response.json()
OnStatus_NoStatusCheck(status, retry_on_rate_limit) ==
    CASE status = 404 ->
           [act |-> "raise",
            exc |-> Exc("RestaurantNotFoundError", <<Lit("Restaurant not found (404)")>>)]
      [] status = 429 -> On429(retry_on_rate_limit)
      [] status = 430 ->
           [act |-> "raise",
            exc |-> Exc("APIUnavailableError",
                        <<Lit("API unavailable - check headers or endpoint (430)")>>)]
      [] status >= 500 -> [act |-> "raise", exc |-> ServerError(status)]
      [] OTHER -> [act |-> "json"]

\* what _make_request does with a response of the given status:
\* raise an error, retry, or go on to response.json()
OnStatus(status, retry_on_rate_limit) ==
    CASE status = 404 ->
           [act |-> "raise",
            exc |-> Exc("RestaurantNotFoundError", <<Lit("Restaurant not found (404)")>>)]
      [] status = 429 -> On429(retry_on_rate_limit)
      [] status = 430 ->
           [act |-> "raise",
            exc |-> Exc("APIUnavailableError",
                        <<Lit("API unavailable - check headers or endpoint (430)")>>)]
      [] status >= 500 -> [act |-> "raise", exc |-> ServerError(status)]
      [] OTHER ->
           \* response.raise_for_status(): HTTPError for 400..599, caught as
           \* RequestException and wrapped
           IF status >= 400 /\ status < 600
           THEN [act |-> "raise",
                 exc |-> Exc("WoltAPIError",
                             <<Lit("Request failed: "), Str(ToString(status)),
                               Lit(" Client Error")>>)]
           ELSE [act |-> "json"]

\* response.json() on a body that is not JSON raises requests' JSONDecodeError,
\* a RequestException, which the except clause wraps
NotJson == [t |-> "notjson", v |-> 0]

OnBody(body) ==
    IF body.t = "notjson"
    THEN Raise(Exc("WoltAPIError", <<Lit("Request failed: "), Str("JSONDecodeError")>>))
    ELSE Return(body)

\* variant: a transport failure reported as the service being unavailable
OnTransportFailure_Unavailable(kind) ==
    Raise(Exc("APIUnavailableError", <<Lit("Request failed: "), Str(kind)>>))

\* a transport failure: session.get raises a RequestException, wrapped
OnTransportFailure(kind) ==
    Raise(Exc("WoltAPIError", <<Lit("Request failed: "), Str(kind)>>))

-----------------------------------------------------------------------------
(* client.py: the loop of is_restaurant_open over one anchor's restaurants *)

RECURSIVE MatchSlug_ByName(_, _)
\* variant: compares the name of the restaurant with the slug
MatchSlug_ByName(restaurants, slug) ==
    IF restaurants = <<>> THEN [found |-> FALSE, flag |-> FALSE]
    ELSE IF Head(restaurants).name = slug
         THEN [found |-> TRUE, flag |-> Head(restaurants).is_online]
         ELSE MatchSlug_ByName(Tail(restaurants), slug)

RECURSIVE MatchSlug(_, _)
\* for restaurant in restaurants: if restaurant.slug == slug: return restaurant.is_online
MatchSlug(restaurants, slug) ==
    IF restaurants = <<>> THEN [found |-> FALSE, flag |-> FALSE]
    ELSE IF Head(restaurants).slug = slug
         THEN [found |-> TRUE, flag |-> Head(restaurants).is_online]
         ELSE MatchSlug(Tail(restaurants), slug)

\* what get_nearby_restaurants gives its caller once _make_request has ended
\* with mr (the data returned, or the error raised)
NearbyResult(mr) == IF mr.kind = "raise" THEN mr ELSE NearbyFromData(mr.value)

\* variant: one except clause that wraps whatever was raised
IsOpenExcept_WrapAll(e, slug) ==
    Raise(Exc("WoltAPIError",
              <<Lit("Error checking restaurant status: "), Msg(e.msg)>>))

\* the except clauses of is_restaurant_open: a WoltAPIError is re-raised, any
\* other exception is wrapped in a WoltAPIError
IsOpenExcept(e, slug) ==
    IF IsInstance(e, "WoltAPIError") THEN Raise(e)
    ELSE Raise(Exc("WoltAPIError",
                   <<Lit("Error checking restaurant status: "), Msg(e.msg)>>))

\* variant: the slug that no anchor holds reported as the not-found kind
UnknownSlugError_NotFound(slug) ==
    Exc("RestaurantNotFoundError", <<Lit("Unknown slug: "), Val(slug)>>)

\* the error is_restaurant_open raises after the loop over the anchors
UnknownSlugError(slug) == Exc("WoltAPIError", <<Lit("Unknown slug: "), Val(slug)>>)

\* variant: the loop leaves out the last anchor
MoreAnchors_Short(idx) == idx < Len(israeli_locations) - 1

\* whether the for loop over israeli_locations has an anchor after anchor idx
MoreAnchors(idx) == idx < Len(israeli_locations)

\* one iteration of the loop of is_restaurant_open over the anchors, for the
\* anchor idx whose nearby query ended with nearby: go on to the next anchor,
\* or end with a flag or an error
IsOpenStep(nearby, slug, idx) ==
    IF nearby.kind = "raise"
    THEN [next |-> "done", result |-> IsOpenExcept(nearby.exc, slug)]
    ELSE LET m == MatchSlug(nearby.value, slug)
         IN  IF m.found THEN [next |-> "done", result |-> Return(m.flag)]
             ELSE IF MoreAnchors(idx)
                  THEN [next |-> "continue", result |-> NoOutcome]
                  ELSE [next |-> "done",
                        result |-> IsOpenExcept(UnknownSlugError(slug), slug)]

-----------------------------------------------------------------------------
(* server.py: the three tools *)

GreenOpen  == "U+1F7E2 OPEN"
RedClosed  == "U+1F534 CLOSED"

\* variant: the markers swapped
StatusMarker_Swapped(open) == IF open THEN RedClosed ELSE GreenOpen

\* status = "(green) OPEN" if is_open else "(red) CLOSED"
StatusMarker(open) == IF open THEN GreenOpen ELSE RedClosed

\* variant: the clause for WoltAPIError comes first and hides the one for
\* RestaurantNotFoundError
CheckExcept_BaseFirst(e, slug) ==
    IF IsInstance(e, "WoltAPIError")
    THEN TextResult(<<Lit("Could not check restaurant availability: "), Msg(e.msg)>>)
    ELSE IF IsInstance(e, "Exception")
    THEN TextResult(<<Lit("An unexpected error occurred while checking restaurant availability. Please try again.")>>)
    ELSE Raise(e)

\* the except clauses of check_restaurant_availability; the literal of the
\* RestaurantNotFoundError message is cut around "not found"
CheckExcept(e, slug) ==
    IF IsInstance(e, "RestaurantNotFoundError")
    THEN TextResult(<<Lit("Restaurant with slug '"), Val(slug), Lit("' "), Lit("not found"),
                      Lit(". Please verify the slug is correct.")>>)
    ELSE IF IsInstance(e, "WoltAPIError")
    THEN TextResult(<<Lit("Could not check restaurant availability: "), Msg(e.msg)>>)
    ELSE IF IsInstance(e, "Exception")
    THEN TextResult(<<Lit("An unexpected error occurred while checking restaurant availability. Please try again.")>>)
    ELSE Raise(e)

\* check_restaurant_availability, from the end r of api.is_restaurant_open(slug)
CheckAvailability(r, slug) ==
    IF r.kind = "return"
    THEN TextResult(<<Lit("Restaurant '"), Val(slug), Lit("' is currently "),
                      Str(StatusMarker(r.value)), Lit(" for orders.")>>)
    ELSE CheckExcept(r.exc, slug)

\* the methods class WoltAPI defines, and the parameters of those the tools call
WoltAPIMethods ==
    {"__init__", "_rate_limit", "_make_request", "is_restaurant_open",
     "get_nearby_restaurants", "find_restaurants", "_parse_restaurant"}

MethodParams ==
    [get_nearby_restaurants |-> <<"lat", "lon", "radius">>,
     find_restaurants       |-> <<"query", "lat", "lon">>,
     is_restaurant_open     |-> <<"slug">>]

NumRequired ==
    [get_nearby_restaurants |-> 2, find_restaurants |-> 3, is_restaurant_open |-> 1]

\* Python's binding of a call api.method(npos positional arguments, keywords):
\* the exception the call raises before the method body runs, if any
BindCall(method, npos, keywords) ==
    IF method \notin WoltAPIMethods
    THEN Raise(Exc("AttributeError",
                   <<Lit("'WoltAPI' object has no attribute '"), Str(method), Lit("'")>>))
    ELSE LET ps == MethodParams[method]
             names == {ps[i] : i \in DOMAIN ps}
             bound == {ps[i] : i \in 1..npos} \cup keywords
         IN  IF \/ npos > Len(ps)
                \/ keywords \ names # {}
                \/ \E i \in 1..NumRequired[method] : ps[i] \notin bound
             THEN Raise(Exc("TypeError",
                            <<Str(method), Lit("() got unexpected or missing arguments")>>))
             ELSE NoOutcome

\* variant: without the last clause, except Exception
SearchExcept_NoCatchAll(e) ==
    IF IsInstance(e, "ValueError")
    THEN TextResult(<<Lit("Search error: "), Msg(e.msg)>>)
    ELSE IF IsInstance(e, "WoltAPIError")
    THEN TextResult(<<Lit("Wolt API temporarily unavailable: "), Msg(e.msg)>>)
    ELSE Raise(e)

\* the except clauses of search_restaurants
SearchExcept(e) ==
    IF IsInstance(e, "ValueError")
    THEN TextResult(<<Lit("Search error: "), Msg(e.msg)>>)
    ELSE IF IsInstance(e, "WoltAPIError")
    THEN TextResult(<<Lit("Wolt API temporarily unavailable: "), Msg(e.msg)>>)
    ELSE IF IsInstance(e, "Exception")
    THEN TextResult(<<Lit("An unexpected error occurred during restaurant search. Please try again.")>>)
    ELSE Raise(e)

\* search_restaurants: api.find_restaurants_by_name(query, city_filter=city,
\* max_results=max_results) is a call of a method WoltAPI does not define, so
\* the statements after it are never reached
search_restaurants(query, city, max_results) ==
    LET call == BindCall("find_restaurants_by_name", 1, {"city_filter", "max_results"})
    IN  IF call.kind = "raise" THEN SearchExcept(call.exc) ELSE NoOutcome

\* the except clauses of the tool get_nearby_restaurants
NearbyExcept(e) ==
    IF IsInstance(e, "ValueError")
    THEN TextResult(<<Lit("Parameter error: "), Msg(e.msg)>>)
    ELSE IF IsInstance(e, "WoltAPIError")
    THEN TextResult(<<Lit("Wolt API temporarily unavailable: "), Msg(e.msg)>>)
    ELSE IF IsInstance(e, "Exception")
    THEN TextResult(<<Lit("An unexpected error occurred while getting nearby restaurants. Please try again.")>>)
    ELSE Raise(e)

\* the only_open loop of the tool get_nearby_restaurants over the venues
\* left after the name filter, lookups[i] being the end of
\* api.is_restaurant_open(restaurants[i].slug): the venues appended to
\* open_restaurants.  The loop assigns restaurant.is_open, and the bare except
\* skips the venue when the lookup or the assignment raises
RECURSIVE OnlyOpenLoop(_, _)
OnlyOpenLoop(restaurants, lookups) ==
    IF restaurants = <<>> THEN <<>>
    ELSE LET restaurant == Head(restaurants)
             lookup == Head(lookups)
             rest == OnlyOpenLoop(Tail(restaurants), Tail(lookups))
         IN  IF lookup.kind = "raise" THEN rest
             ELSE IF ~lookup.value THEN rest
             ELSE LET set == SetAttr(restaurant, "is_open", JBool(TRUE))
                  IN  IF set.kind = "raise" THEN rest
                      ELSE <<set.value>> \o rest

\* the tool get_nearby_restaurants: api.get_nearby_restaurants(city,
\* max_results=max_results) passes a keyword the method does not take, so the
\* statements after it are never reached
tool_get_nearby_restaurants(city, cuisine_filter, max_results, only_open) ==
    LET call == BindCall("get_nearby_restaurants", 1, {"max_results"})
    IN  IF call.kind = "raise" THEN NearbyExcept(call.exc) ELSE NoOutcome

-----------------------------------------------------------------------------
(* The upstream service: the statuses and bodies it may answer with *)

S_abc == <<"a", "b", "c">>
S_b1  == <<"b", "-", "1">>
S_ABC == <<"A", "B", "C">>
S_zzz == <<"z", "z", "z">>

VenueA(online) ==
    [name   |-> JStr(<<" ", "P", "a">>),
     slug   |-> JStr(S_abc),
     online |-> JBool(online),
     tags   |-> JList(<<JStr(<<"P">>), JNum(7), JStr(<<" ">>)>>),
     rating |-> JObj([score |-> JNum(45)]),
     estimate |-> JObj([estimate |-> JStr(<<"3", "0">>)])]

VenueB ==
    [name   |-> JStr(<<"S", "h">>),
     slug   |-> JStr(S_b1),
     online |-> JBool(TRUE),
     tags   |-> JList(<<JStr(<<"J">>)>>)]

\* a venue object without a name: it fails validation
VenueNoName == [slug |-> JStr(S_abc), online |-> JBool(TRUE)]

\* a venue object whose slug has upper-case letters: it fails the pattern
VenueUpper == [name |-> JStr(<<"C">>), slug |-> JStr(S_ABC), online |-> JBool(TRUE)]

Item(venue)    == JObj([venue |-> JObj(venue)])
ItemNoVenue    == JObj([title |-> JStr(<<"a">>)])
Section(items) == JObj([items |-> JList(items)])
Body(sections) == JObj([sections |-> JList(sections)])

BodyPool ==
    << Body(<<Section(<<ItemNoVenue, Item(VenueB)>>)>>),
       Body(<<Section(<<Item(VenueB)>>),
              Section(<<Item(VenueA(TRUE)), Item(VenueA(FALSE))>>)>>),
       Body(<<Section(<<Item(VenueA(FALSE)), Item(VenueA(TRUE))>>)>>),
       Body(<<Section(<<Item(VenueB), Item(VenueNoName)>>)>>),
       Body(<<Section(<<Item(VenueUpper)>>)>>),
       JObj([title |-> JStr(<<"a">>)]),
       NotJson >>

Statuses == {200, 304, 400, 403, 404, 429, 430, 500, 503}

TransportFailures == {"ConnectionError", "Timeout"}

\* the slugs looked up, and the arguments of a direct nearby query
Slugs == {S_abc, S_zzz, S_ABC}

DirectParams == {Params(320853, 347818, 2000)}

\* the queries of a direct find_restaurants
FindQueries == {<<"p">>, <<"J">>}

\* the arguments the tools are called with: a query or city name ("pa", or
\* empty), a city filter ("abc", or none), max_results; the defaults of
\* max_results and rate_limit_delay
DefaultMaxResults == 20
DefaultDelay == 1
Queries == {<<"p", "a">>, <<>>}
Cities == <<JStr(S_abc), JNone>>
MaxResults == {0, 20}

-----------------------------------------------------------------------------
(* The state machine *)

\* the slots of the tool invocations that may be in progress at once
Instances == {1, 2}

\* a slot without an invocation
NoInstance ==
    [pc |-> "none", rate_limit_delay |-> 0, last_request_time |-> 0,
     entered |-> 0, wake |-> 0, slept |-> 0, dispatched |-> 0, last_dispatch |-> 0]

\* no Restaurant constructed yet
NoObject == [kind |-> "none"]

NoModels ==
    [restaurant |-> NoObject, before |-> NoObject,
     op |-> "none", attr |-> "none", input |-> <<>>, result |-> NoOutcome]

NoFrame ==
    [tool |-> "none", args |-> <<>>, op |-> "none", slug |-> <<>>, idx |-> 0,
     params |-> Params(0, 0, 0), retry_on_rate_limit |-> TRUE]

\* hist records, for the live instance: the time of its last dispatch and the
\* gap between its last two (-1: none); for the running _make_request call:
\* the params of the requests dispatched, the statuses and the last body
\* received, when a first 429 arrived and how long after it the retry was
\* dispatched, how the call ended; for the running is_restaurant_open: the
\* nearby queries issued, whether the query before the current one was
\* retried, the first anchor whose result set held the slug and how the
\* operation ended
NewHist ==
    [last_dispatch |-> -1, gap |-> -1,
     requests |-> <<>>, statuses |-> <<>>, body |-> JNone,
     got429_at |-> -1, suspended |-> -1, mr |-> NoOutcome,
     queries |-> 0, retried_before |-> FALSE, first_hit |-> 0, result |-> NoOutcome]

\* the monitor before monitor_restaurants is called.  pc is the position in
\* the function, slug the index of the slug of the for loop, cycle the number
\* of the pass of the while loop, line the last line printed, checked the
\* slugs the for loop is through with in this cycle, waited the seconds slept
\* before this cycle, last the check completed last (slug, previous_status
\* before it, the end of the lookup, the line it printed), observations what
\* the lookups of each slug returned so far, stopped_at the position at which
\* the exception that ended the run was raised
NoMonitor ==
    [pc |-> "off", slug |-> 0, cycle |-> 0, previous_status |-> <<>>,
     line |-> <<>>, checked |-> <<>>, waited |-> 0,
     last |-> [slug |-> 0, before |-> <<>>, result |-> 0, line |-> <<>>],
     observations |-> <<>>, stopped_at |-> "none"]

Init ==
    /\ now = StartTime
    /\ owner = "none"
    /\ rate_limit_delay = 0
    /\ last_request_time = 0
    /\ pc = "idle"
    /\ frame = NoFrame
    /\ hist = NewHist
    /\ outcome = NoOutcome
    /\ inst = [i \in Instances |-> NoInstance]
    /\ models = NoModels
    /\ monitor = NoMonitor

\* the attributes WoltAPI.__init__ sets on the instance
InstanceAttributes == {"rate_limit_delay", "last_request_time", "session"}

\* api.<name> read on the live instance: the value of the attribute, a number
\* (the session is of no interest and read as None), or AttributeError
GetAttribute(name) ==
    IF name \notin InstanceAttributes
    THEN Raise(Exc("AttributeError",
                   <<Lit("'WoltAPI' object has no attribute '"), Str(name), Lit("'")>>))
    ELSE CASE name = "rate_limit_delay"  -> Return(JNum(rate_limit_delay))
           [] name = "last_request_time" -> Return(JNum(last_request_time))
           [] OTHER -> Return(JNone)

\* WoltAPI.__init__, called by a user of the library
Construct(delay) ==
    /\ UNCHANGED <<inst, models, monitor>>
    /\ pc = "idle"
    /\ owner' = "direct"
    /\ rate_limit_delay' = delay
    /\ last_request_time' = 0
    /\ frame' = NoFrame
    /\ hist' = NewHist
    /\ outcome' = NoOutcome
    /\ UNCHANGED <<now, pc>>

\* api.get_nearby_restaurants(lat, lon, radius), called by a user of the library
CallGetNearby(p) ==
    /\ UNCHANGED <<inst, models, monitor>>
    /\ pc = "idle"
    /\ owner = "direct"
    /\ frame' = [NoFrame EXCEPT !.op = "get_nearby_restaurants", !.params = p]
    /\ hist' = [NewHist EXCEPT !.last_dispatch = hist.last_dispatch, !.gap = hist.gap]
    /\ pc' = "request"
    /\ outcome' = NoOutcome
    /\ UNCHANGED <<now, owner, rate_limit_delay, last_request_time>>

\* api.find_restaurants(query, lat, lon), called by a user of the library
CallFindRestaurants(query, p) ==
    /\ UNCHANGED <<inst, models, monitor>>
    /\ pc = "idle"
    /\ owner = "direct"
    /\ frame' = [NoFrame EXCEPT !.op = "find_restaurants", !.args = <<query>>,
                                !.params = Params(p.lat, p.lon, FindRadius)]
    /\ hist' = [NewHist EXCEPT !.last_dispatch = hist.last_dispatch, !.gap = hist.gap]
    /\ pc' = "request"
    /\ outcome' = NoOutcome
    /\ UNCHANGED <<now, owner, rate_limit_delay, last_request_time>>

\* the tool check_restaurant_availability(slug, rate_limit_delay), up to its
\* first request: a fresh WoltAPI and the call of is_restaurant_open
ToolCheckAvailability(slug, delay) ==
    /\ UNCHANGED <<inst, models, monitor>>
    /\ pc = "idle"
    /\ owner' = "tool"
    /\ rate_limit_delay' = delay
    /\ last_request_time' = 0
    /\ frame' = [NoFrame EXCEPT !.tool = "check_restaurant_availability",
                                !.op = "is_restaurant_open", !.slug = slug,
                                !.idx = 1, !.params = AnchorParams(1)]
    /\ hist' = NewHist
    /\ pc' = "request"
    /\ outcome' = NoOutcome
    /\ UNCHANGED now

\* the tool search_restaurants
ToolSearch(query, city, max_results, delay) ==
    /\ UNCHANGED <<inst, models, monitor>>
    /\ pc = "idle"
    /\ owner' = "tool"
    /\ rate_limit_delay' = delay
    /\ last_request_time' = 0
    /\ frame' = [NoFrame EXCEPT !.tool = "search_restaurants",
                                !.args = <<query, city, max_results>>]
    /\ hist' = NewHist
    /\ outcome' = search_restaurants(query, city, max_results)
    /\ UNCHANGED <<now, pc>>

\* the tool get_nearby_restaurants
ToolNearby(city, cuisine_filter, max_results, only_open, delay) ==
    /\ UNCHANGED <<inst, models, monitor>>
    /\ pc = "idle"
    /\ owner' = "tool"
    /\ rate_limit_delay' = delay
    /\ last_request_time' = 0
    /\ frame' = [NoFrame EXCEPT !.tool = "get_nearby_restaurants",
                                !.args = <<city, cuisine_filter, max_results, only_open>>]
    /\ hist' = NewHist
    /\ outcome' = tool_get_nearby_restaurants(city, cuisine_filter, max_results, only_open)
    /\ UNCHANGED <<now, pc>>

\* the time at which _rate_limit returns when called at time current_time:
\* time.sleep(sleep_time) returns after sleep_time or up to over later
AfterRateLimit(current_time, last, delay, over) ==
    current_time + SleepTime(current_time, last, delay) + over

\* _make_request up to the dispatch: _rate_limit() sleeps and records the
\* time, then session.get sends the request
Dispatch(over) ==
    /\ UNCHANGED <<inst, models, monitor>>
    /\ pc = "request"
    /\ over = 0 \/ SleepTime(now, last_request_time, rate_limit_delay) > 0
    /\ LET t == AfterRateLimit(now, last_request_time, rate_limit_delay, over)
           first == hist.got429_at < 0
           request == frame.params
       IN  /\ t <= MaxTime
           /\ now' = t
           /\ last_request_time' = t
           /\ hist' = [hist EXCEPT
                 !.gap = IF hist.last_dispatch >= 0 THEN t - hist.last_dispatch ELSE -1,
                 !.last_dispatch = t,
                 !.requests = IF first THEN <<request>> ELSE Append(@, request),
                 !.statuses = IF first THEN <<>> ELSE @,
                 !.body = IF first THEN JNone ELSE @,
                 !.got429_at = -1,
                 !.suspended = IF first THEN -1 ELSE t - hist.got429_at,
                 !.mr = NoOutcome,
                 !.queries = IF first THEN @ + 1 ELSE @]
    /\ pc' = "waiting"
    /\ UNCHANGED <<owner, rate_limit_delay, frame, outcome>>

\* the end of the running operation when its _make_request call ended with mr:
\* the result goes up through get_nearby_restaurants, is_restaurant_open and
\* the tool, or the scan goes on to the next anchor
Continue(mr, status, body) ==
    LET nearby == NearbyResult(mr)
        h == [hist EXCEPT !.statuses = Append(@, status), !.body = body, !.mr = mr]
    IN  IF frame.op = "get_nearby_restaurants"
        THEN /\ outcome' = nearby
             /\ pc' = "idle"
             /\ hist' = [h EXCEPT !.result = nearby]
             /\ frame' = frame
        ELSE IF frame.op = "find_restaurants"
        THEN /\ outcome' = FindResult(nearby, frame.args[1])
             /\ pc' = "idle"
             /\ hist' = [h EXCEPT !.result = FindResult(nearby, frame.args[1])]
             /\ frame' = frame
        ELSE LET step == IsOpenStep(nearby, frame.slug, frame.idx)
                 hit == /\ nearby.kind = "return"
                        /\ \E i \in DOMAIN nearby.value : nearby.value[i].slug = frame.slug
                 hh == [h EXCEPT !.first_hit = IF hit /\ @ = 0 THEN frame.idx ELSE @]
             IN  IF step.next = "continue"
                 THEN /\ frame' = [frame EXCEPT !.idx = @ + 1,
                                                !.params = AnchorParams(frame.idx + 1),
                                                !.retry_on_rate_limit = DefaultRetry]
                      /\ pc' = "request"
                      /\ hist' = [hh EXCEPT !.retried_before = Len(hh.requests) = 2]
                      /\ outcome' = outcome
                 ELSE /\ outcome' = IF frame.tool = "check_restaurant_availability"
                                    THEN CheckAvailability(step.result, frame.slug)
                                    ELSE step.result
                      /\ pc' = "idle"
                      /\ hist' = [hh EXCEPT !.result = step.result]
                      /\ frame' = frame

\* the response to the request in flight arrives with a status and body k of
\* the pool, and _make_request and its callers run on to the next request or
\* to the end of the operation
Respond(status, k) ==
    /\ UNCHANGED <<inst, models, monitor>>
    /\ pc = "waiting"
    /\ LET on == OnStatus(status, frame.retry_on_rate_limit)
       IN  CASE on.act = "retry" ->
                  /\ k = 1
                  /\ now + RetrySleep <= MaxTime
                  /\ now' = now + RetrySleep
                  /\ frame' = [frame EXCEPT !.retry_on_rate_limit = RetryArgument]
                  /\ hist' = [hist EXCEPT !.statuses = Append(@, status), !.got429_at = now]
                  /\ pc' = "request"
                  /\ outcome' = outcome
             [] on.act = "raise" ->
                  /\ k = 1
                  /\ now' = now
                  /\ Continue(Raise(on.exc), status, JNone)
             [] on.act = "json" ->
                  /\ now' = now
                  /\ Continue(OnBody(BodyPool[k]), status, BodyPool[k])
    /\ UNCHANGED <<owner, rate_limit_delay, last_request_time>>

\* session.get fails: connection error or timeout
TransportFailure(kind) ==
    /\ UNCHANGED <<inst, models, monitor>>
    /\ pc = "waiting"
    /\ Continue(OnTransportFailure(kind), 0, JNone)
    /\ UNCHANGED <<now, owner, rate_limit_delay, last_request_time>>

\* a second passes while a response is awaited or between two calls
Tick ==
    /\ UNCHANGED <<inst, models, monitor>>
    /\ \/ pc = "waiting" /\ now - last_request_time < MaxLatency
       \/ pc = "idle" /\ owner = "direct" /\ last_request_time > 0
          /\ now - last_request_time < MaxIdle
    /\ now < MaxTime
    /\ now' = now + 1
    /\ UNCHANGED <<owner, rate_limit_delay, last_request_time, pc, frame, hist, outcome>>

Next ==
    \/ \E d \in Delays : Construct(d)
    \/ \E p \in DirectParams : CallGetNearby(p)
    \/ \E q \in FindQueries, p \in DirectParams : CallFindRestaurants(q, p)
    \/ \E slug \in Slugs, d \in Delays : ToolCheckAvailability(slug, d)
    \/ \E q \in Queries, c \in DOMAIN Cities, d \in Delays :
          ToolSearch(q, Cities[c], DefaultMaxResults, d)
    \/ \E q \in Queries, m \in MaxResults, o \in BOOLEAN :
          ToolNearby(q, JNone, m, o, DefaultDelay)
    \/ \E over \in 0..MaxOversleep : Dispatch(over)
    \/ \E status \in Statuses, k \in DOMAIN BodyPool : Respond(status, k)
    \/ \E kind \in TransportFailures : TransportFailure(kind)
    \/ Tick

Spec == Init /\ [][Next]_vars

-----------------------------------------------------------------------------
(* Tool invocations in progress at the same time: each has the WoltAPI it    *)
(* constructed.  What a response holds is left out: a response is followed  *)
(* by a further request of the invocation or by its end.                     *)

main == <<owner, rate_limit_delay, last_request_time, pc, frame, hist, outcome>>

\* variant: last_request_time kept on the class, shared by the instances
FreshLastRequestTime_Shared ==
    LET times == {inst[j].last_request_time : j \in Instances}
    IN  CHOOSE t \in times : \A u \in times : u <= t

\* self.last_request_time = 0.0 in WoltAPI.__init__
FreshLastRequestTime == 0

\* a tool is invoked with rate_limit_delay: api = WoltAPI(rate_limit_delay=...),
\* up to its first call of _make_request
ToolInvoke(i, delay) ==
    /\ inst[i].pc = "none"
    /\ inst' = [inst EXCEPT ![i] =
                   [NoInstance EXCEPT !.pc = "request",
                                      !.rate_limit_delay = delay,
                                      !.last_request_time = FreshLastRequestTime]]
    /\ UNCHANGED <<now, main, models, monitor>>

\* _rate_limit up to time.sleep(sleep_time), which returns at wake
EnterRateLimit(i, over) ==
    /\ inst[i].pc = "request"
    /\ LET current_time == now
           sleep_time == SleepTime(current_time, inst[i].last_request_time,
                                   inst[i].rate_limit_delay)
       IN  /\ over = 0 \/ sleep_time > 0
           /\ current_time + sleep_time + over <= MaxInstTime
           /\ inst' = [inst EXCEPT ![i].pc = "sleeping",
                                   ![i].entered = current_time,
                                   ![i].slept = sleep_time,
                                   ![i].wake = current_time + sleep_time + over]
    /\ UNCHANGED <<now, main, models, monitor>>

\* the end of _rate_limit, self.last_request_time = time.time(), and the
\* dispatch of the request by session.get
DispatchRequest(i) ==
    /\ inst[i].pc = "sleeping"
    /\ now = inst[i].wake
    /\ inst' = [inst EXCEPT ![i].pc = "waiting",
                            ![i].last_request_time = now,
                            ![i].last_dispatch = now,
                            ![i].dispatched = @ + 1]
    /\ UNCHANGED <<now, main, models, monitor>>

\* the response arrives; the invocation makes a further request, or ends and
\* its instance is dropped
ResponseArrives(i, more) ==
    /\ inst[i].pc = "waiting"
    /\ more => inst[i].dispatched < MaxRequests
    /\ inst' = [inst EXCEPT ![i] = IF more THEN [@ EXCEPT !.pc = "request"]
                                   ELSE NoInstance]
    /\ UNCHANGED <<now, main, models, monitor>>

\* a second passes; a sleep that is over has returned
TimePasses ==
    /\ now < MaxInstTime
    /\ \A i \in Instances : inst[i].pc = "sleeping" => now < inst[i].wake
    /\ \E i \in Instances : inst[i].pc # "none"
    /\ now' = now + 1
    /\ UNCHANGED <<main, inst, models, monitor>>

NextInstances ==
    \/ \E i \in Instances, d \in Delays : ToolInvoke(i, d)
    \/ \E i \in Instances, over \in 0..MaxOversleep : EnterRateLimit(i, over)
    \/ \E i \in Instances : DispatchRequest(i)
    \/ \E i \in Instances, more \in BOOLEAN : ResponseArrives(i, more)
    \/ TimePasses

SpecInstances == Init /\ [][NextInstances]_vars

-----------------------------------------------------------------------------
(* A user of models.py: constructions of Restaurant and of SearchParams and *)
(* assignments to the attributes of the Restaurant held                     *)

S_Test == <<"T", "e", "s", "t", "-", "R", "e", "s", "t", "a", "u", "r", "a", "n", "t",
            "_", "1", "2", "3">>

\* the arguments tried: names, slugs, ratings (in tenths), a tag list
NamePool == {<<>>, <<" ">>, <<"T", "e", "s", "t">>, <<" ", "T", "e", "s", "t", " ">>}
SlugPool == {S_abc, S_ABC, S_Test, <<"a", " ", "b">>, <<"a", "b">>}
RatingPool == {JNone, JNum(-1), JNum(45), JNum(50), JNum(60)}
TagsPool == {<< <<"P">>, <<" ">>, <<" ", "J">> >>}

\* the assignments tried: an attribute and a value
Assignments ==
    << <<"rating", JNum(60)>>, <<"rating", JNum(30)>>, <<"rating", JNone>>,
       <<"name", JStr(<<" ", " ">>)>>, <<"name", JStr(<<"Q", " ">>)>>,
       <<"slug", JStr(S_ABC)>>, <<"slug", JStr(S_zzz)>>,
       <<"is_online", JBool(FALSE)>>, <<"is_online", JBool(TRUE)>>,
       <<"cuisine_types", JList(<< <<" ">>, <<"S", " ">> >>)>>,
       <<"unknown", JNum(1)>> >>

\* the arguments of SearchParams tried; a query of 101 characters
LongQuery == [i \in 1..(QueryMaxLen + 1) |-> "a"]
QueryPool == {<<>>, <<" ", " ">>, <<"a", " ">>, <<"p", "a">>, <<" ", "P", "a", " ">>, LongQuery}
CityPool == <<Omitted, JNone, JStr(<<" ">>), JStr(<<" ", "T", "A">>)>>
MaxResultsPool == {Omitted, JNum(0), JNum(1), JNum(10), JNum(100), JNum(101), JNum(200)}
DelayPool == {Omitted, JNum(5), JNum(10), JNum(150), JNum(500), JNum(501), JNum(1000)}

\* restaurant = Restaurant(name=..., slug=..., is_online=..., cuisine_types=...,
\* rating=...): when the construction fails the variable keeps what it held;
\* before is the object an assignment was made to
NewRestaurant(name, slug, is_online, cuisine_types, rating) ==
    /\ LET r == Restaurant(JStr(name), JStr(slug), JBool(is_online), cuisine_types,
                           rating, JNone, JNone)
       IN  models' = [restaurant |-> IF r.kind = "return" THEN r.value
                                     ELSE models.restaurant,
                      before |-> NoObject,
                      op |-> "Restaurant", attr |-> "none",
                      input |-> <<JStr(name), JStr(slug), JBool(is_online), rating>>,
                      result |-> r]
    /\ UNCHANGED <<now, main, inst, monitor>>

\* restaurant.attr = value
Assign(attr, value) ==
    /\ models.restaurant # NoObject
    /\ LET r == SetAttr(models.restaurant, attr, value)
       IN  models' = [restaurant |-> IF r.kind = "return" THEN r.value
                                     ELSE models.restaurant,
                      before |-> models.restaurant,
                      op |-> "setattr", attr |-> attr,
                      input |-> <<value>>,
                      result |-> r]
    /\ UNCHANGED <<now, main, inst, monitor>>

\* SearchParams(query=..., city=..., max_results=..., rate_limit_delay=...)
NewSearchParams(query, city, max_results, delay) ==
    /\ models' = [restaurant |-> NoObject,
                  before |-> NoObject,
                  op |-> "SearchParams", attr |-> "none",
                  input |-> <<JStr(query), city, max_results, delay>>,
                  result |-> SearchParams(JStr(query), city, max_results, delay)]
    /\ UNCHANGED <<now, main, inst, monitor>>

NextModels ==
    \/ \E name \in NamePool, slug \in SlugPool, online \in BOOLEAN,
          tags \in TagsPool, rating \in RatingPool :
          NewRestaurant(name, slug, online, tags, rating)
    \/ \E a \in DOMAIN Assignments : Assign(Assignments[a][1], Assignments[a][2])

SpecModels == Init /\ [][NextModels]_vars

NextParams ==
    \E query \in QueryPool, c \in DOMAIN CityPool,
       m \in MaxResultsPool, d \in DelayPool :
       NewSearchParams(query, CityPool[c], m, d)

SpecParams == Init /\ [][NextParams]_vars

-----------------------------------------------------------------------------
(* examples/monitoring_script.py: monitor_restaurants.  The pictographs of *)
(* the lines printed are written as their code points.                     *)

\* the slugs to monitor; the script lists one and asks for the list to be
\* replaced, the model monitors two
RESTAURANTS_TO_MONITOR == <<"hamosad", "vitrina">>

\* the argument of time.sleep between two cycles, in seconds
CycleSleep == 300

\* the ends api.is_restaurant_open(slug) can have for the script: a flag, or
\* an exception of the client or of Python
MonitorLookups ==
    <<Return(TRUE), Return(FALSE),
      Raise(Exc("WoltAPIError", <<Lit("Unknown slug")>>)),
      Raise(Exc("AttributeError", <<Lit("'NoneType' object has no attribute 'get'")>>))>>

\* variant: a slug seen before prints STATUS CHANGE whatever its state
StatusLine_AlwaysChange(previous_status, slug, flag) ==
    IF slug \in DOMAIN previous_status
    THEN <<Lit("U+26A1 STATUS CHANGE: "), Str(slug), Lit(" is now "),
           Str(IF flag THEN "U+1F7E2 OPENED" ELSE "U+1F534 CLOSED")>>
    ELSE <<Lit("U+1F4CD "), Str(slug), Lit(": "),
           Str(IF flag THEN "U+1F7E2 OPEN" ELSE "U+1F534 CLOSED"),
           Lit(" (initial check)")>>

\* the line printed for a slug whose lookup returned flag (is_open)
StatusLine(previous_status, slug, flag) ==
    IF slug \in DOMAIN previous_status
    THEN IF previous_status[slug] # flag
         THEN <<Lit("U+26A1 STATUS CHANGE: "), Str(slug), Lit(" is now "),
                Str(IF flag THEN "U+1F7E2 OPENED" ELSE "U+1F534 CLOSED")>>
         ELSE <<Lit("U+2796 "), Str(slug), Lit(": "),
                Str(IF flag THEN "U+1F7E2 OPEN" ELSE "U+1F534 CLOSED"),
                Lit(" (no change)")>>
    ELSE <<Lit("U+1F4CD "), Str(slug), Lit(": "),
           Str(IF flag THEN "U+1F7E2 OPEN" ELSE "U+1F534 CLOSED"),
           Lit(" (initial check)")>>

\* previous_status[slug] = is_open
Remember(previous_status, slug, flag) ==
    [s \in DOMAIN previous_status \cup {slug} |->
        IF s = slug THEN flag ELSE previous_status[s]]

\* variant: the body of the for loop without its try
CheckEnd_NoTry(previous_status, slug, r) ==
    IF r.kind = "return"
    THEN [next |-> "continue",
          line |-> StatusLine(previous_status, slug, r.value),
          previous_status |-> Remember(previous_status, slug, r.value)]
    ELSE [next |-> "propagate", line |-> <<>>, previous_status |-> previous_status]

\* the body of the for loop from the end r of api.is_restaurant_open(slug):
\* the line printed and previous_status after it, or the exception goes on
\* to the outer try
CheckEnd(previous_status, slug, r) ==
    IF r.kind = "return"
    THEN [next |-> "continue",
          line |-> StatusLine(previous_status, slug, r.value),
          previous_status |-> Remember(previous_status, slug, r.value)]
    ELSE IF IsInstance(r.exc, "Exception")
    THEN [next |-> "continue",
          line |-> <<Lit("U+274C Error checking "), Str(slug), Lit(": "), Msg(r.exc.msg)>>,
          previous_status |-> previous_status]
    ELSE [next |-> "propagate", line |-> <<>>, previous_status |-> previous_status]

\* the monitor after exception e, raised at position at, left the while loop:
\* except KeyboardInterrupt prints the farewell, any other exception ends the
\* script with a traceback
Unwind(e, at) ==
    IF IsInstance(e, "KeyboardInterrupt")
    THEN [monitor EXCEPT !.pc = "stopped", !.stopped_at = at,
                         !.line = <<Lit("U+1F44B Monitoring stopped by user")>>]
    ELSE [monitor EXCEPT !.pc = "crashed", !.stopped_at = at]

\* monitor_restaurants up to the first lookup: the client, the banner, the
\* empty previous_status and the first "Checking restaurant status..." line
MonitorStart ==
    /\ monitor.pc = "off"
    /\ monitor' = [NoMonitor EXCEPT
          !.pc = "check", !.slug = 1, !.cycle = 1,
          !.line = <<Lit("Checking restaurant status...")>>,
          !.observations = [i \in DOMAIN RESTAURANTS_TO_MONITOR |-> <<>>]]
    /\ UNCHANGED <<now, main, inst, models>>

\* api.is_restaurant_open(slug) is called
BeginCheck ==
    /\ monitor.pc = "check"
    /\ monitor' = [monitor EXCEPT !.pc = "lookup"]
    /\ UNCHANGED <<now, main, inst, models>>

\* the lookup ends with MonitorLookups[k]: the rest of the body of the for
\* loop, and after the last slug "Next check in 5 minutes..." and time.sleep
EndCheck(k) ==
    /\ monitor.pc = "lookup"
    /\ LET slug == RESTAURANTS_TO_MONITOR[monitor.slug]
           r == MonitorLookups[k]
           end == CheckEnd(monitor.previous_status, slug, r)
           more == monitor.slug < Len(RESTAURANTS_TO_MONITOR)
       IN  monitor' =
             IF end.next = "propagate" THEN Unwind(r.exc, "lookup")
             ELSE [monitor EXCEPT
                     !.previous_status = end.previous_status,
                     !.last = [slug |-> monitor.slug, before |-> monitor.previous_status,
                               result |-> k, line |-> end.line],
                     !.observations[monitor.slug] =
                         IF r.kind = "return" THEN Append(@, r.value) ELSE @,
                     !.checked = Append(@, monitor.slug),
                     !.line = IF more THEN end.line
                              ELSE <<Lit("Next check in 5 minutes...")>>,
                     !.slug = IF more THEN @ + 1 ELSE @,
                     !.pc = IF more THEN "check" ELSE "sleep"]
    /\ UNCHANGED <<now, main, inst, models>>

\* time.sleep returns and the next pass of the while loop begins
WakeUp ==
    /\ monitor.pc = "sleep"
    /\ monitor.cycle < MaxCycles
    /\ monitor' = [monitor EXCEPT
          !.pc = "check", !.slug = 1, !.cycle = @ + 1, !.checked = <<>>,
          !.waited = CycleSleep,
          !.line = <<Lit("Checking restaurant status...")>>]
    /\ UNCHANGED <<now, main, inst, models>>

\* the operator presses Ctrl+C: KeyboardInterrupt is raised where the script
\* is, within the lookup, between two statements or within time.sleep
Interrupt ==
    /\ monitor.pc \in {"check", "lookup", "sleep"}
    /\ LET e == Exc("KeyboardInterrupt", <<>>)
           end == CheckEnd(monitor.previous_status,
                           RESTAURANTS_TO_MONITOR[monitor.slug], Raise(e))
       IN  monitor' =
             IF monitor.pc = "lookup" /\ end.next = "continue"
             THEN [monitor EXCEPT !.line = end.line, !.pc = "check"]
             ELSE Unwind(e, monitor.pc)
    /\ UNCHANGED <<now, main, inst, models>>

NextMonitor ==
    \/ MonitorStart
    \/ BeginCheck
    \/ \E k \in DOMAIN MonitorLookups : EndCheck(k)
    \/ WakeUp
    \/ Interrupt

SpecMonitor == Init /\ [][NextMonitor]_vars

-----------------------------------------------------------------------------
(* Properties *)

ToolDone(tool) == frame.tool = tool /\ pc = "idle" /\ outcome.kind # "none"

LastStatus == IF hist.statuses = <<>> THEN -1 ELSE hist.statuses[Len(hist.statuses)]

HasPart(text, part) == \E i \in DOMAIN text : text[i] = part

\* C1: within one client instance every request (429 retries included) is
\* dispatched at least rate_limit_delay after the previous dispatch of that
\* instance, and the time _rate_limit recorded is the time of the dispatch.
C1_RateLimitGap ==
    /\ hist.gap # -1 => hist.gap >= rate_limit_delay
    /\ pc = "waiting" => last_request_time = hist.last_dispatch

\* a retry that _rate_limit had to delay beyond the 5 seconds of the retry sleep
C1_Witness ==
    /\ pc = "waiting"
    /\ Len(hist.requests) = 2
    /\ rate_limit_delay > RetrySleep
    /\ hist.gap = rate_limit_delay

\* C2: a 429 followed by a 200 makes _make_request retry the identical request
\* exactly once, at least 5 seconds after the 429, and return the parsed body
\* of the 200 response; two 429 in a row make it raise RateLimitError
\* "Rate limit exceeded (429)".
C2_RetryOnce ==
    /\ (hist.statuses = <<429, 200>> /\ hist.body.t = "dict") =>
          /\ Len(hist.requests) = 2
          /\ hist.requests[2] = hist.requests[1]
          /\ hist.suspended >= RetrySleep
          /\ hist.mr = Return(hist.body)
    /\ hist.statuses = <<429, 429>> =>
          /\ Len(hist.requests) = 2
          /\ hist.mr = Raise(Exc("RateLimitError", <<Lit("Rate limit exceeded (429)")>>))
    /\ Len(hist.statuses) <= 2

C2_Witness ==
    /\ hist.statuses = <<429, 200>>
    /\ hist.mr.kind = "return"
    /\ hist.suspended = RetrySleep

\* the venue objects of a response body, in document order, and the online
\* flag of the first of them that carries the slug
RawVenues(body) == SectionVenues(Get(body.v, "sections", JList(<<>>)).v)

FlagOfSlug(body, slug) ==
    LET vs == RawVenues(body)
        k == CHOOSE i \in DOMAIN vs :
               /\ vs[i]["slug"].v = slug
               /\ \A j \in 1..(i - 1) : vs[j]["slug"].v # slug
    IN  vs[k]["online"].v

\* C3: is_restaurant_open queries the anchors in order and stops at the first
\* anchor whose result set holds the slug (compared exactly): if that is the
\* k-th anchor, exactly k nearby queries are issued, none after it, and the
\* online flag of the matching venue is returned.
C3_ShortCircuit ==
    frame.op = "is_restaurant_open" =>
      /\ hist.queries <= frame.idx
      /\ frame.idx <= Len(israeli_locations)
      /\ pc = "waiting" => frame.params = AnchorParams(frame.idx)
      /\ hist.first_hit # 0 =>
            /\ pc = "idle"
            /\ frame.idx = hist.first_hit
            /\ hist.queries = hist.first_hit
            /\ hist.result = Return(FlagOfSlug(hist.body, frame.slug))
      /\ (pc = "idle" /\ hist.result.kind = "return") => hist.first_hit # 0

\* the slug is found at the third anchor
C3_Witness ==
    /\ frame.op = "is_restaurant_open"
    /\ pc = "idle"
    /\ hist.first_hit = 3
    /\ hist.queries = 3
    /\ hist.result = Return(FALSE)

UnknownSlug(slug) == Raise(Exc("WoltAPIError", <<Lit("Unknown slug: "), Val(slug)>>))

\* an is_restaurant_open that ended after a nearby query that succeeded and
\* without any result set having held the slug
ScanExhausted ==
    /\ frame.op = "is_restaurant_open"
    /\ pc = "idle"
    /\ hist.result.kind # "none"
    /\ hist.first_hit = 0
    /\ NearbyResult(hist.mr).kind = "return"

ErrorStatus(st) == st \in {404, 430} \/ st >= 500

\* C5: _make_request raises RestaurantNotFoundError "Restaurant not found
\* (404)" for a 404, APIUnavailableError "API unavailable - check headers or
\* endpoint (430)" for a 430 and APIUnavailableError with the status code in
\* its message for any status >= 500; none of these is retried, and the error
\* reaches the caller of the client operation as it was raised.
C5_StatusMapping ==
    /\ LastStatus = 404 =>
          hist.mr = Raise(Exc("RestaurantNotFoundError", <<Lit("Restaurant not found (404)")>>))
    /\ LastStatus = 430 =>
          hist.mr = Raise(Exc("APIUnavailableError",
                              <<Lit("API unavailable - check headers or endpoint (430)")>>))
    /\ LastStatus >= 500 =>
          /\ hist.mr.kind = "raise"
          /\ hist.mr.exc.type = "APIUnavailableError"
          /\ HasPart(hist.mr.exc.msg, Str(ToString(LastStatus)))
    /\ ErrorStatus(LastStatus) => (pc = "idle" /\ hist.result = hist.mr)
    /\ \A i \in 1..(Len(hist.statuses) - 1) : ~ErrorStatus(hist.statuses[i])

\* a 503 answered to the retry of a request
C5_Witness ==
    /\ hist.statuses = <<429, 503>>
    /\ hist.mr.kind = "raise"
    /\ hist.mr.exc.type = "APIUnavailableError"

ToolDelayOk == rate_limit_delay >= 1 /\ rate_limit_delay <= 5

SearchArgsOk ==
    /\ Len(frame.args[1]) >= 2 /\ Len(frame.args[1]) <= 100
    /\ frame.args[2].t = "none" \/ (frame.args[2].t = "str" /\ Len(frame.args[2].v) <= 50)
    /\ frame.args[3] >= 1 /\ frame.args[3] <= 50
    /\ ToolDelayOk

NearbyArgsOk ==
    /\ Len(frame.args[1]) >= 2 /\ Len(frame.args[1]) <= 50
    /\ frame.args[3] >= 1 /\ frame.args[3] <= 100
    /\ ToolDelayOk

ToolSlugOk(slug) ==
    /\ Len(slug) >= 3 /\ Len(slug) <= 200
    /\ \A i \in DOMAIN slug : slug[i] \in LowerLetters \cup Digits \cup {"-"}

\* C7: search_restaurants, called with valid arguments and no upstream failure,
\* returns a report ("Found N restaurant(s) matching ...", then one numbered
\* line per venue) or the "No restaurants found matching ..." line, not an
\* error or apology text.
C7_SearchReport ==
    (ToolDone("search_restaurants") /\ SearchArgsOk) =>
      /\ outcome.kind = "text"
      /\ Head(outcome.text) \in {Lit("Found "), Lit("No restaurants found matching '")}

\* C8: the tool get_nearby_restaurants, called with a valid city and no
\* upstream failure, returns a numbered report of the venues of the city or the
\* "No restaurants found in {city}" line, not an error or apology text.
C8_NearbyReport ==
    (ToolDone("get_nearby_restaurants") /\ NearbyArgsOk) =>
      /\ outcome.kind = "text"
      /\ Head(outcome.text) \in {Lit("Found "), Lit("No restaurants found in ")}

C10_OpenClosedText ==
    (ToolDone("check_restaurant_availability") /\ hist.result.kind = "return") =>
      /\ hist.result.value = FlagOfSlug(hist.body, frame.slug)
      /\ outcome = TextResult(<<Lit("Restaurant '"), Val(frame.slug), Lit("' is currently "),
                                Str(IF hist.result.value THEN "U+1F7E2 OPEN"
                                                         ELSE "U+1F534 CLOSED"),
                                Lit(" for orders.")>>)

\* a venue found closed
C10_Witness ==
    /\ ToolDone("check_restaurant_availability")
    /\ hist.result = Return(FALSE)
    /\ HasPart(outcome.text, Str("U+1F534 CLOSED"))

NearbyDone ==
    /\ frame.op = "get_nearby_restaurants"
    /\ pc = "idle"
    /\ hist.result.kind = "return"

RECURSIVE Flatten(_)
Flatten(seqs) == IF seqs = <<>> THEN <<>> ELSE Head(seqs) \o Flatten(Tail(seqs))

\* an item of a section that holds a venue object (one with a field at least)
HoldsVenue(item) == "venue" \in DOMAIN item.v /\ DOMAIN item.v["venue"].v # {}

\* the venue objects present in a response body: section after section, and
\* item after item within a section
DocVenues(body) ==
    IF "sections" \notin DOMAIN body.v THEN <<>>
    ELSE LET secs == body.v["sections"].v
             of(s) == LET present == SelectSeq(secs[s].v["items"].v, HoldsVenue)
                      IN  [i \in DOMAIN present |-> present[i].v["venue"].v]
         IN  Flatten([s \in DOMAIN secs |-> of(s)])

IsStrTag(j) == j.t = "str"
NotBlank(s) == s # <<>>

\* the string-typed entries of a tags list, in order
StringTags(venue) ==
    LET strs == SelectSeq(Get(venue, "tags", JList(<<>>)).v, IsStrTag)
    IN  [i \in DOMAIN strs |-> strs[i].v]

\* the same entries trimmed, those that are blank after trimming left out
TrimmedStringTags(venue) ==
    LET tags == StringTags(venue)
    IN  SelectSeq([i \in DOMAIN tags |-> Strip(tags[i])], NotBlank)

\* record i of the result stands for venue object i of the response
RecordOf(rs, vs, i) ==
    /\ rs[i].slug = vs[i]["slug"].v
    /\ rs[i].is_online = vs[i]["online"].v

\* C11 (as stated): get_nearby_restaurants returns one record per venue object
\* present in the response, in document order and without deduplication, and
\* the cuisine tags of each record are exactly the string-typed entries of the
\* tags list of its venue, in order.
C11_Original ==
    NearbyDone =>
      LET vs == DocVenues(hist.body)
          rs == hist.result.value
      IN  /\ Len(rs) = Len(vs)
          /\ \A i \in DOMAIN rs :
                RecordOf(rs, vs, i) /\ rs[i].cuisine_types = StringTags(vs[i])

\* C11 (amended): get_nearby_restaurants returns one record per venue object
\* present in the response, in document order and without deduplication, and
\* the cuisine tags of each record are the string-typed entries of the tags
\* list of its venue, in order, each trimmed and those that are blank after
\* trimming left out.
C11_NearbyRecords ==
    NearbyDone =>
      LET vs == DocVenues(hist.body)
          rs == hist.result.value
      IN  /\ Len(rs) = Len(vs)
          /\ \A i \in DOMAIN rs :
                RecordOf(rs, vs, i) /\ rs[i].cuisine_types = TrimmedStringTags(vs[i])

\* two sections of one and two venue items give three records, two of them of
\* the same venue, one with a number and a blank among its tags
C11_Witness ==
    /\ NearbyDone
    /\ Len(hist.body.v["sections"].v) = 2
    /\ Len(hist.result.value) = 3
    /\ hist.result.value[2].slug = hist.result.value[3].slug
    /\ hist.result.value[2].cuisine_types = << <<"P">> >>

FindDone ==
    /\ frame.op = "find_restaurants"
    /\ pc = "idle"
    /\ hist.result.kind = "return"

\* the text holds the query somewhere, letter case apart
HoldsIgnoringCase(text, query) ==
    \E i \in 1..(Len(text) + 1), j \in 0..Len(text) :
        Lower(SubSeq(text, i, j)) = Lower(query)

\* C12: find_restaurants(query, lat, lon) runs one nearby query, of radius
\* 5000 at (lat, lon), and returns, in their order and each entry once, those
\* of its venues whose name holds the query, letter case apart, or that have a
\* cuisine tag holding it, and no other venue; the result is not capped.
C12_FindFilter ==
    /\ frame.op = "find_restaurants" =>
          /\ frame.params.radius = 5000
          /\ hist.queries <= 1
          /\ \A i \in DOMAIN hist.requests : hist.requests[i] = frame.params
    /\ FindDone =>
          LET venues == NearbyFromData(hist.body).value
              query == frame.args[1]
              kept(r) == \/ HoldsIgnoringCase(r.name, query)
                         \/ \E t \in DOMAIN r.cuisine_types :
                               HoldsIgnoringCase(r.cuisine_types[t], query)
          IN  /\ hist.queries = 1
              /\ hist.result.value = SelectSeq(venues, kept)

\* the query "J" keeps the venue tagged "J", whose name does not hold it, and
\* leaves out the two entries of the other venue
C12_Witness ==
    /\ FindDone
    /\ frame.args[1] = <<"J">>
    /\ Len(NearbyFromData(hist.body).value) = 3
    /\ Len(hist.result.value) = 1
    /\ hist.result.value[1].name = <<"S", "h">>

\* _make_request has ended with the generic error that wraps a failure
GenericWrapped(mr) ==
    /\ mr.kind = "raise"
    /\ mr.exc.type = "WoltAPIError"
    /\ Len(mr.exc.msg) >= 2
    /\ Head(mr.exc.msg) = Lit("Request failed: ")

\* a status that is not 2xx and for which _make_request has no branch; the
\* status recorded for a transport failure is 0
OtherStatus(st) ==
    /\ st > 0
    /\ st < 200 \/ st >= 300
    /\ st \notin {404, 429, 430}
    /\ st < 500

\* C14 (as stated): _make_request raises WoltAPIError itself, with a message
\* that wraps the failure, for every status that is not 2xx and not 404, 429,
\* 430 or >= 500, and for every transport failure.
C14_Original ==
    (OtherStatus(LastStatus) \/ LastStatus = 0) => GenericWrapped(hist.mr)

\* C14 (amended): _make_request raises WoltAPIError itself, with a message
\* that wraps the failure, for every 4xx status other than 404, 429 and 430
\* and for every transport failure; the message of a status names the status.
C14_GenericError ==
    /\ (OtherStatus(LastStatus) /\ LastStatus >= 400) =>
          /\ GenericWrapped(hist.mr)
          /\ HasPart(hist.mr.exc.msg, Str(ToString(LastStatus)))
    /\ LastStatus = 0 => GenericWrapped(hist.mr)

\* a 403 answered to the retry of a request
C14_Witness ==
    /\ hist.statuses = <<429, 403>>
    /\ GenericWrapped(hist.mr)

\* C15 (as stated): a transport failure during a request is reported with
\* APIUnavailableError, the kind of a 430 and of a 5xx.
C15_Original ==
    LastStatus = 0 =>
      (hist.mr.kind = "raise" /\ IsInstance(hist.mr.exc, "APIUnavailableError"))

\* C15 (amended): a transport failure during a request is reported with
\* WoltAPIError itself and not with APIUnavailableError, which is the kind of
\* a 430 and of a 5xx only.
C15_TransportKind ==
    /\ LastStatus = 0 =>
          /\ hist.mr.kind = "raise"
          /\ hist.mr.exc.type = "WoltAPIError"
          /\ ~IsInstance(hist.mr.exc, "APIUnavailableError")
    /\ (hist.mr.kind = "raise" /\ IsInstance(hist.mr.exc, "APIUnavailableError")) =>
          (LastStatus = 430 \/ LastStatus >= 500)

\* the connection fails when a request is retried after a 429
C15_Witness ==
    /\ hist.statuses = <<429, 0>>
    /\ hist.mr.kind = "raise"
    /\ HasPart(hist.mr.exc.msg, Str("ConnectionError"))

\* C13: the throttle state belongs to one instance.  An invocation gets a
\* fresh instance, so its first request is dispatched without sleeping, and a
\* later request sleeps for what is left of the instance's own delay since the
\* instance's own last dispatch, whatever the other instances have dispatched.
C13_PrivateThrottle ==
    \A i \in Instances :
      inst[i].pc \in {"sleeping", "waiting"} =>
        LET left == inst[i].rate_limit_delay - (inst[i].entered - inst[i].last_dispatch)
            own == IF inst[i].pc = "waiting" THEN inst[i].dispatched - 1
                   ELSE inst[i].dispatched
        IN  /\ own = 0 => inst[i].slept = 0
            /\ (own > 0 /\ inst[i].pc = "sleeping") =>
                  inst[i].slept = IF left > 0 THEN left ELSE 0

\* two invocations with a delay of 6 seconds each have dispatched a request at
\* the same second, one of them its second request
C13_Witness ==
    /\ inst[1].pc = "waiting" /\ inst[2].pc = "waiting"
    /\ inst[1].rate_limit_delay = 6 /\ inst[2].rate_limit_delay = 6
    /\ inst[1].last_dispatch = inst[2].last_dispatch
    /\ inst[1].dispatched = 2 /\ inst[2].dispatched = 1

\* the arguments of the last construction of a Restaurant
Constructed == models.op = "Restaurant"
NameArg   == models.input[1].v
SlugArg   == models.input[2].v
RatingArg == models.input[4]

Blank(text) == \A i \in DOMAIN text : text[i] = " "
SlugLetter(c) == c \in LowerLetters \cup Digits \cup {"-", "_"}
RatingInBounds(j) == j.t = "none" \/ (j.v >= 0 /\ j.v <= 50)
Invalid(result) == result.kind = "raise" /\ IsInstance(result.exc, "ValueError")

\* C16: a construction of a Restaurant that is valid but for the letter case
\* of its slug is accepted, and the slug is stored in lower case
\* ('Test-Restaurant_123' as 'test-restaurant_123').
C16_LowerCaseSlug ==
    (/\ Constructed
     /\ ~Blank(NameArg)
     /\ RatingInBounds(RatingArg)
     /\ Len(SlugArg) >= 3
     /\ \A i \in DOMAIN SlugArg : SlugLetter(Lower(SlugArg)[i])) =>
       /\ models.result.kind = "return"
       /\ models.result.value.slug = Lower(SlugArg)

ParamsMade == models.op = "SearchParams"
QueryArg      == models.input[1].v
CityArg       == models.input[2]
MaxResultsArg == models.input[3]
DelayArg      == models.input[4]

Given(j) == j.t # "omitted"
Trimmed(text) == text = <<>> \/ (text[1] # " " /\ text[Len(text)] # " ")
LowerCase(text) == \A i \in DOMAIN text : \A u \in DOMAIN UpperAlphabet : text[i] # UpperAlphabet[u]

\* C18: the construction of a SearchParams fails with a validation error when
\* the query is empty or blank, when max_results is outside [1, 100] or when
\* rate_limit_delay is outside [0.1, 5.0]; left out, max_results is 20,
\* rate_limit_delay is 1.0 and city is absent.
C18_ParamsRejected ==
    ParamsMade =>
      /\ (\/ Blank(QueryArg)
          \/ Given(MaxResultsArg) /\ (MaxResultsArg.v < 1 \/ MaxResultsArg.v > 100)
          \/ Given(DelayArg) /\ (DelayArg.v < 10 \/ DelayArg.v > 500)) =>
            /\ Invalid(models.result)
            /\ models.result.exc.type = "ValidationError"
      /\ models.result.kind = "return" =>
            /\ ~Given(MaxResultsArg) => models.result.value.max_results = 20
            /\ ~Given(DelayArg) => models.result.value.rate_limit_delay = 100
            /\ ~Given(CityArg) => models.result.value.city.t = "none"

\* a query of two spaces, nothing else given
C18_Witness ==
    /\ ParamsMade
    /\ QueryArg = <<" ", " ">>
    /\ ~Given(CityArg) /\ ~Given(MaxResultsArg) /\ ~Given(DelayArg)
    /\ Invalid(models.result)

\* the city held is absent, or a text that is not empty, is trimmed and has
\* no upper-case letter
CityHeldOk(city) ==
    city.t = "none" \/ (city.t = "str" /\ city.v # <<>> /\ Trimmed(city.v) /\ LowerCase(city.v))

\* C19 (as stated): the query of a SearchParams that was constructed is
\* trimmed, not empty and 2 to 100 characters long, and its city is absent or
\* a trimmed lower-case text that is not empty.
C19_Original ==
    (ParamsMade /\ models.result.kind = "return") =>
      LET p == models.result.value
      IN  /\ Trimmed(p.query) /\ p.query # <<>>
          /\ Len(p.query) >= 2 /\ Len(p.query) <= 100
          /\ CityHeldOk(p.city)

\* C19 (amended): the query of a SearchParams that was constructed is
\* trimmed, not empty and 1 to 100 characters long (the bounds 2 and 100 are
\* those of the query as given, before trimming), and its city is absent or a
\* trimmed lower-case text that is not empty.
C19_ParamsHeld ==
    (ParamsMade /\ models.result.kind = "return") =>
      LET p == models.result.value
      IN  /\ Trimmed(p.query) /\ p.query # <<>>
          /\ Len(p.query) >= 1 /\ Len(p.query) <= 100
          /\ Len(QueryArg) >= 2 /\ Len(QueryArg) <= 100
          /\ CityHeldOk(p.city)
          /\ (CityArg.t = "str" /\ Blank(CityArg.v)) => p.city.t = "none"

\* the query "a " is held as "a" and the city " TA" as "ta"
C19_Witness ==
    /\ ParamsMade
    /\ models.result.kind = "return"
    /\ QueryArg = <<"a", " ">>
    /\ models.result.value.query = <<"a">>
    /\ models.result.value.city.t = "str"
    /\ models.result.value.city.v = <<"t", "a">>

\* what holds of every Restaurant: the constraints of its fields, and is_open
RestaurantInv(o) ==
    /\ o.name # <<>> /\ Trimmed(o.name) /\ Len(o.name) <= 200
    /\ Len(o.slug) >= 3 /\ Len(o.slug) <= 200
    /\ \A i \in DOMAIN o.slug : SlugLetter(o.slug[i])
    /\ o.is_online \in BOOLEAN
    /\ RatingInBounds(o.rating)
    /\ \A i \in DOMAIN o.cuisine_types :
          o.cuisine_types[i] # <<>> /\ Trimmed(o.cuisine_types[i])
    /\ is_open(o) = o.is_online

\* the construction from the fields of o, attr being given the value j
Rebuilt(o, attr, j) ==
    Restaurant(IF attr = "name" THEN j ELSE JStr(o.name),
               IF attr = "slug" THEN j ELSE JStr(o.slug),
               IF attr = "is_online" THEN j ELSE JBool(o.is_online),
               IF attr = "cuisine_types" THEN j.v ELSE o.cuisine_types,
               IF attr = "rating" THEN j ELSE o.rating,
               o.delivery_estimate, o.image_url)

\* C20: the constraints of Restaurant hold of the object held after any
\* constructions and assignments, and is_open equals is_online.  An assignment
\* to a field ends as the construction from the object's fields with the new
\* value would; one that fails, an assignment to an unknown attribute
\* included, raises a validation error and leaves the object as it was.
C20_AssignmentChecks ==
    /\ models.restaurant # NoObject => RestaurantInv(models.restaurant)
    /\ models.op = "setattr" =>
          /\ models.attr \in Fields =>
                models.result = Rebuilt(models.before, models.attr, models.input[1])
          /\ models.attr \notin Fields => models.result.kind = "raise"
          /\ models.result.kind = "return" => models.restaurant = models.result.value
          /\ models.result.kind = "raise" =>
                /\ Invalid(models.result)
                /\ models.restaurant = models.before

\* the rating 6.0 assigned to an object of rating 4.5, which keeps it
C20_Witness ==
    /\ models.op = "setattr"
    /\ models.attr = "rating"
    /\ models.input[1].v = 60
    /\ Invalid(models.result)
    /\ models.restaurant.rating.v = 45

\* the live instance has dispatched no request yet
FreshInstance == owner # "none" /\ hist.last_dispatch = -1

\* C21: a client that has made no request yet keeps the rate_limit_delay it
\* was given, has no previous request recorded (its _last_request_time is
\* None), and its first request is dispatched without a rate limit sleep.
C21_FreshClient ==
    /\ FreshInstance =>
          /\ GetAttribute("rate_limit_delay").kind = "return"
          /\ GetAttribute("rate_limit_delay").value.v \in Delays
          /\ GetAttribute("_last_request_time").kind = "return"
          /\ GetAttribute("_last_request_time").value.t = "none"
    /\ (FreshInstance /\ pc = "request") =>
          SleepTime(now, last_request_time, rate_limit_delay) = 0

\* C22: one call of _make_request causes at most two dispatches.  After a
\* first 429 the identical request is re-issued once with retrying disabled,
\* and the outcome of the retry follows from the status of the retry: 404
\* raises not-found, 430 or 5xx service-unavailable, 429 rate-limited, and
\* 200 returns the body.
C22_TwoDispatches ==
    /\ Len(hist.requests) <= 2
    /\ \A i \in DOMAIN hist.requests : hist.requests[i] = hist.requests[1]
    /\ Len(hist.requests) = 2 => hist.statuses[1] = 429
    /\ (hist.statuses = <<429>> /\ pc \in {"request", "waiting"}) =>
          ~frame.retry_on_rate_limit
    /\ (Len(hist.statuses) = 2 /\ hist.statuses[1] = 429) =>
          LET s == hist.statuses[2]
          IN  /\ Len(hist.requests) = 2
              /\ s = 404 => (hist.mr.kind = "raise"
                             /\ hist.mr.exc.type = "RestaurantNotFoundError")
              /\ (s = 430 \/ s >= 500) => (hist.mr.kind = "raise"
                                           /\ hist.mr.exc.type = "APIUnavailableError")
              /\ s = 429 => (hist.mr.kind = "raise"
                             /\ hist.mr.exc.type = "RateLimitError")
              /\ (s = 200 /\ hist.body.t = "dict") => hist.mr = Return(hist.body)

\* a 404 answered to the retry of a request
C22_Witness ==
    /\ hist.statuses = <<429, 404>>
    /\ Len(hist.requests) = 2
    /\ hist.mr.kind = "raise"
    /\ hist.mr.exc.type = "RestaurantNotFoundError"

\* the four kinds of platform error
PlatformKinds ==
    {"RestaurantNotFoundError", "RateLimitError", "APIUnavailableError", "WoltAPIError"}

\* the running is_restaurant_open had an anchor query end with a platform error
AnchorQueryFailed ==
    /\ frame.op = "is_restaurant_open"
    /\ hist.mr.kind = "raise"
    /\ hist.mr.exc.type \in PlatformKinds

\* C23: a platform error of any of the four kinds raised by an anchor's nearby
\* query leaves is_restaurant_open as it was raised, same kind and same
\* message, and no anchor after the failing one is queried.
C23_PlatformErrorEscapes ==
    AnchorQueryFailed =>
        /\ pc = "idle"
        /\ hist.result = hist.mr
        /\ hist.queries = frame.idx
        /\ Len(hist.requests) <= 2

\* the second anchor's query is answered 429 twice: RateLimitError escapes
\* and the eighteen anchors left are not queried
C23_Witness ==
    /\ AnchorQueryFailed
    /\ frame.idx = 2
    /\ hist.statuses = <<429, 429>>
    /\ hist.mr.exc.type = "RateLimitError"
    /\ hist.result = hist.mr
    /\ hist.queries = 2

\* the response to the last nearby query of the running operation held a
\* venue object that failed the validation of Restaurant
VenueRejected ==
    /\ frame.op \in {"get_nearby_restaurants", "find_restaurants", "is_restaurant_open"}
    /\ hist.mr.kind = "return"
    /\ NearbyResult(hist.mr).kind = "raise"
    /\ NearbyResult(hist.mr).exc.type = "ValidationError"

\* C24: a venue object of an upstream response that fails the validation of
\* Restaurant never makes get_nearby_restaurants, find_restaurants or
\* is_restaurant_open raise a WoltAPIError: the operation ends with the
\* validation error itself.
C24_ValidationDistinct ==
    VenueRejected =>
        /\ pc = "idle"
        /\ hist.result.kind = "raise"
        /\ hist.result.exc.type = "ValidationError"
        /\ hist.result.exc.type \notin PlatformKinds

\* the not-found message of check_restaurant_availability for a slug
NotFoundMessage(slug) ==
    <<Lit("Restaurant with slug '"), Val(slug), Lit("' "), Lit("not found"),
      Lit(". Please verify the slug is correct.")>>

Scanning == frame.op = "is_restaurant_open" /\ pc \in {"request", "waiting"}

\* what a running scan can still do at most: the anchors left, the retry left
\* for the request of the current anchor, the dispatch of that request
ScanRank ==
    4 * (Len(israeli_locations) - frame.idx)
      + (IF frame.retry_on_rate_limit THEN 2 ELSE 0)
      + (IF pc = "request" THEN 1 ELSE 0)

\* is_restaurant_open has ended with a flag, with "Unknown slug" or an error
ScanEnded ==
    /\ pc = "idle"
    /\ \/ hist.result.kind = "return" /\ hist.result.value \in BOOLEAN
       \/ hist.result.kind = "raise"

\* C29: is_restaurant_open terminates when every HTTP call returns or fails:
\* each dispatch and each response takes the scan closer to its end, which is
\* a flag, "Unknown slug" or an error; the scan passes over the anchor list
\* once at most, with at most two dispatches per anchor, and the request of
\* every anchor has its own retry.
C29_ScanTerminates ==
    /\ [](frame.op = "is_restaurant_open" =>
            /\ frame.idx \in 1..Len(israeli_locations)
            /\ hist.queries <= frame.idx
            /\ hist.retried_before => frame.idx >= 2
            /\ Len(hist.requests) <= 2
            /\ Scanning \/ ScanEnded
            /\ (pc = "request" /\ hist.got429_at < 0) => frame.retry_on_rate_limit
            /\ Scanning => ScanRank >= 0)
    /\ [][(Scanning /\ (pc' # pc \/ frame' # frame)) =>
            \/ ScanEnded'
            \/ Scanning' /\ ScanRank' < ScanRank]_vars

\* the queries of the first and of the second anchor were both retried
C29_Witness ==
    /\ frame.op = "is_restaurant_open"
    /\ frame.idx = 2
    /\ hist.queries = 2
    /\ hist.retried_before
    /\ hist.statuses = <<429, 200>>
    /\ ScanEnded

\* the ends an availability lookup can have: open, closed, a failure
LookupOutcomes ==
    <<Return(TRUE), Return(FALSE),
      Raise(Exc("APIUnavailableError", <<Lit("Server error (503)")>>))>>

\* the venues of rs whose lookup succeeded and reported open, in order
RECURSIVE ConfirmedOpen(_, _)
ConfirmedOpen(rs, ends) ==
    IF rs = <<>> THEN <<>>
    ELSE (IF Head(ends) = 1 THEN <<Head(rs)>> ELSE <<>>)
           \o ConfirmedOpen(Tail(rs), Tail(ends))

\* C25: the tool get_nearby_restaurants with only_open set is not aborted by
\* a lookup that fails, and the venues it keeps of those fetched are exactly
\* the ones whose lookup succeeded and reported open, in the original order:
\* a venue whose lookup fails is dropped, a venue confirmed open is kept.
C25_OnlyOpenKept ==
    /\ (ToolDone("get_nearby_restaurants") /\ NearbyArgsOk /\ frame.args[4]) =>
          /\ outcome.kind = "text"
          /\ Head(outcome.text) \in {Lit("Found "), Lit("No restaurants found in ")}
    /\ NearbyDone =>
          \A ends \in [DOMAIN hist.result.value -> DOMAIN LookupOutcomes] :
              OnlyOpenLoop(hist.result.value,
                           [i \in DOMAIN ends |-> LookupOutcomes[ends[i]]])
                = ConfirmedOpen(hist.result.value, ends)

\* the arguments of the finished tool invocation meet the declared constraints
ToolArgsOk ==
    IF frame.tool = "search_restaurants" THEN SearchArgsOk ELSE NearbyArgsOk

\* an upstream request of the invocation ended with a platform error
UpstreamFailed == hist.mr.kind = "raise" /\ hist.mr.exc.type \in PlatformKinds

\* the first words of the three kinds of failure text of a tool
InputTier ==
    IF frame.tool = "search_restaurants" THEN Lit("Search error: ")
    ELSE Lit("Parameter error: ")

PlatformTier == Lit("Wolt API temporarily unavailable: ")

ApologyTier ==
    IF frame.tool = "search_restaurants"
    THEN Lit("An unexpected error occurred during restaurant search. Please try again.")
    ELSE Lit("An unexpected error occurred while getting nearby restaurants. Please try again.")

\* C28: search_restaurants and get_nearby_restaurants report a failure in the
\* tier of its kind: "Search error: " / "Parameter error: " only for invalid
\* input arguments, "Wolt API temporarily unavailable: " exactly for upstream
\* platform errors, and the generic apology only for failures that are
\* neither.
C28_ThreeTiers ==
    (ToolDone("search_restaurants") \/ ToolDone("get_nearby_restaurants")) =>
      /\ outcome.kind = "text"
      /\ Head(outcome.text) = InputTier => ~ToolArgsOk
      /\ Head(outcome.text) = PlatformTier <=> UpstreamFailed
      /\ Head(outcome.text) = ApologyTier => (ToolArgsOk /\ ~UpstreamFailed)

\* the kinds of line a check prints
IsChange(line)   == HasPart(line, Lit("U+26A1 STATUS CHANGE: "))
IsInitial(line)  == HasPart(line, Lit(" (initial check)"))
IsNoChange(line) == HasPart(line, Lit(" (no change)"))
IsError(line)    == line # <<>> /\ Head(line) = Lit("U+274C Error checking ")

\* the monitor has completed a check; its slug, the end of its lookup and
\* what the lookups of that slug returned up to it
Checked == monitor.last.slug # 0
LastSlug == RESTAURANTS_TO_MONITOR[monitor.last.slug]
LastLookup == MonitorLookups[monitor.last.result]
LastObservations == monitor.observations[monitor.last.slug]

\* C26: the monitor prints a STATUS CHANGE line for a slug exactly when the
\* state its lookup returned differs from the state the preceding successful
\* lookup of that slug returned; the first observation of a slug prints an
\* "initial check" line, an unchanged state a "no change" line, and the
\* remembered state of a slug is the one its last successful check observed.
C26_StatusChange ==
    /\ (Checked /\ LastLookup.kind = "return") =>
          LET obs == LastObservations
              n == Len(obs)
          IN  /\ n >= 1 /\ obs[n] = LastLookup.value
              /\ HasPart(monitor.last.line, Str(LastSlug))
              /\ IsChange(monitor.last.line) <=> (n >= 2 /\ obs[n] # obs[n - 1])
              /\ IsInitial(monitor.last.line) <=> n = 1
              /\ IsNoChange(monitor.last.line) <=> (n >= 2 /\ obs[n] = obs[n - 1])
              /\ IsChange(monitor.last.line) =>
                    HasPart(monitor.last.line,
                            Str(IF obs[n] THEN "U+1F7E2 OPENED" ELSE "U+1F534 CLOSED"))
    /\ (Checked /\ LastLookup.kind = "raise") =>
          /\ ~IsChange(monitor.last.line)
          /\ ~IsInitial(monitor.last.line)
          /\ ~IsNoChange(monitor.last.line)
    /\ monitor.pc # "off" =>
          \A i \in DOMAIN RESTAURANTS_TO_MONITOR :
              LET obs == monitor.observations[i]
                  slug == RESTAURANTS_TO_MONITOR[i]
              IN  IF obs = <<>> THEN slug \notin DOMAIN monitor.previous_status
                  ELSE /\ slug \in DOMAIN monitor.previous_status
                       /\ monitor.previous_status[slug] = obs[Len(obs)]

\* open in the first cycle, an error in the second, closed in the third: the
\* third cycle prints the status change
C26_Witness ==
    /\ Checked
    /\ monitor.cycle = 3
    /\ monitor.last.slug = 1
    /\ LastLookup = Return(FALSE)
    /\ LastObservations = <<TRUE, FALSE>>
    /\ IsChange(monitor.last.line)

\* what C27 says of errors: an exception raised by a check never ends the
\* run; it prints an error line and leaves previous_status as it was, the
\* slugs left are checked, and a cycle after the first begins after the wait
ErrorsSurvived ==
    /\ monitor.pc # "crashed"
    /\ (Checked /\ LastLookup.kind = "raise") =>
          /\ IsError(monitor.last.line)
          /\ HasPart(monitor.last.line, Str(LastSlug))
          /\ monitor.previous_status = monitor.last.before
    /\ monitor.pc = "sleep" =>
          monitor.checked = [i \in DOMAIN RESTAURANTS_TO_MONITOR |-> i]
    /\ monitor.pc \in {"check", "lookup"} =>
          monitor.checked = [i \in 1..(monitor.slug - 1) |-> i]
    /\ monitor.cycle >= 2 => monitor.waited = 300
    /\ monitor.cycle = 1 => monitor.waited = 0

\* C27 (as stated): an exception raised while checking a slug never ends the
\* monitoring, and the loop ends only through an operator interrupt, which
\* takes effect between polling cycles and not mid-request, and then stops
\* with a farewell line.
C27_Original ==
    /\ ErrorsSurvived
    /\ monitor.pc = "stopped" =>
          /\ monitor.stopped_at = "sleep"
          /\ monitor.line = <<Lit("U+1F44B Monitoring stopped by user")>>

\* C27 (amended): an exception raised while checking a slug never ends the
\* monitoring: an error line is printed, the remembered state of the slug is
\* left unchanged, the remaining slugs of the cycle are still checked and the
\* next cycle starts after the 300-second wait.  The loop ends only through
\* an operator interrupt, which takes effect wherever the script is, in the
\* wait between cycles, between two checks or in the middle of a request, and
\* then stops with a farewell line.
C27_MonitorSurvives ==
    /\ ErrorsSurvived
    /\ monitor.pc = "stopped" =>
          /\ monitor.stopped_at \in {"check", "lookup", "sleep"}
          /\ monitor.line = <<Lit("U+1F44B Monitoring stopped by user")>>
    /\ monitor.stopped_at # "none" => monitor.pc = "stopped"

\* every check of the first cycle and the first check of the second raised;
\* the second slug is being looked up
C27_Witness ==
    /\ monitor.cycle = 2
    /\ monitor.pc = "lookup"
    /\ monitor.slug = 2
    /\ monitor.last.slug = 1
    /\ LastLookup.kind = "raise"
    /\ IsError(monitor.last.line)
    /\ monitor.previous_status = <<>>
    /\ monitor.waited = 300

====
